---- MODULE Spec2Model ----
(***************************************************************************)
(* Falcon engine: Pool (engine/pool.cpp), expression precompilation and    *)
(* gate steps (engine/expression.cpp), ExprStarIndex                       *)
(* (engine/psteps/exprstarindex.cpp) and native method parameter checks    *)
(* (engine/classes/classmodule.cpp).                                       *)
(***************************************************************************)
EXTENDS Integers, Sequences, FiniteSets, TLC

\* ------------------------------------------------------------------------
\* Bounds
\* ------------------------------------------------------------------------
NThreads == 2
NObjs == 3
MaxPoolBound == 2
MaxLen == 7
MaxSubSteps == 2
MaxBaseDepth == 2
MaxArgs == 2
NHeapObjs == 2
MaxLocks == 1
MaxBody == 2
MaxDepth == 3
MaxClosed == 2
NNames == 3
MaxPath == 3
MaxDesc == 6
MaxCalls == 6
MaxAdds == 5
MaxMark == 2
MtStateLen == 2
MaxRounds == 3

Threads == 1..NThreads
Objs == 1..NObjs
NULL == 0

\* ------------------------------------------------------------------------
\* State
\* ------------------------------------------------------------------------
VARIABLES
  \* Pool fields
  m_head,        \* Poolable* m_head (NULL or an object)
  m_next,        \* Poolable::m_next of every object
  m_size,        \* uint32 m_size
  m_maxSize,     \* uint32 m_maxSize
  m_mtx,         \* Mutex m_mtx: NULL when free, else the owning thread
  \* per-thread position and locals of the Pool method being executed
  pc,
  p,             \* local "Poolable* p" / parameter "data"
  s,             \* local "uint32 s" of the size() call that returned last
  \* bookkeeping about the objects (not fields of the program)
  owner,         \* owner[o]: thread whose caller code holds o, or NULL
  held,          \* held[o]: hand-outs of o to callers not yet released
  deleted,       \* deleted[o]: how many times "delete o" ran
  linkOrder,     \* objects now in the pool, in the order release() linked them
  onlyReleases   \* TRUE while no get() and no clear() has been started

VARIABLES
  \* expression under execution and its context
  expr,          \* the expression tree handed to precompile
  pcode,         \* PCode: the flat sequence of steps precompile produced
  seqId,         \* CodeFrame::m_seqId of the PCode frame
  dataStack,     \* the context's data stack, top last
  baseDepth,     \* data stack depth when the expression started
  status,        \* "running", "done" (frame popped) or "error" (raised)
  trace          \* indices of the steps applied so far, in order

exprVars == <<expr, pcode, seqId, dataStack, baseDepth, status, trace>>

VARIABLES
  \* a context executing an ExprStarIndex step
  codeStack,     \* code frames, top last: [step, seqId, left]
  ctxData,       \* the context's data stack, top last
  starBase,      \* data stack depth when the ExprStarIndex frame was pushed
  evalLog,       \* which sub-expression evaluations were started, in order
  produced,      \* the items those evaluations pushed, in order
  starPops,      \* how many times the ExprStarIndex frame was popped
  starStatus     \* "running", "done" or "error" (OperandError thrown)

VARIABLES
  \* a Module instance and the last call of one of its native methods
  attributes,    \* mod->attributes(): value of each attribute name, or NoAttr
  mantras,       \* the mantras added to the module with their export flag
  nfunc,         \* the method invoked last ("none" before the first call)
  nargs,         \* the arguments of that call
  outcome        \* what the call did

nativeVars == <<attributes, mantras, nfunc, nargs, outcome>>

starVars == <<codeStack, ctxData, starBase, evalLog, produced, starPops, starStatus>>

poolVars == <<m_head, m_next, m_size, m_maxSize, m_mtx, pc, p, s,
              owner, held, deleted, linkOrder, onlyReleases>>

VARIABLES
  \* the collector and the roots it walks
  gcState,       \* per heap object: "none" (not allocated), "live", "disposed"
  gcRef,         \* per heap object: the object its data references, or NULL
  gcStack,       \* objects referenced by Items on a context's stacks
  gcGlobals,     \* objects referenced from the global/module tables
  gcLocks,       \* per heap object: the number of outstanding GCLock handles
  gcNew,         \* tokens still in the new-generation list
  gcMarked,      \* tokens marked in the running cycle
  gcPhase,       \* "idle", "roots", "locks" or "sweep"
  gcDisposed,    \* per heap object: how many times dispose() ran on it
  gcSwept,       \* the tokens disposed by the last sweep
  gcPinned       \* the tokens the last sweep found marked through a lock only

gcVars == <<gcState, gcRef, gcStack, gcGlobals, gcLocks, gcNew, gcMarked,
            gcPhase, gcDisposed, gcSwept, gcPinned>>

VARIABLES
  \* a context running nested frames, some of them handler (try) frames
  tcStack,       \* code stack: frames [kind, left, catchLen], innermost last
  tcStatus,      \* "running", "done" or "terminated"
  tcSurfaced,    \* what was surfaced to the invoker: "none", "soft", "hard"
  tcLast         \* the step taken last

tcVars == <<tcStack, tcStatus, tcSurfaced, tcLast>>

VARIABLES
  \* a context evaluating one unary minus / increment / decrement expression
  uOp,           \* "neg", "preinc", "postinc", "predec" or "postdec"
  uVar,          \* the value of the operand expression
  uData,         \* the data stack
  uSeqId,        \* the frame's position in the precompiled steps
  uStatus,       \* "running", "done" or "error"
  uErr,          \* the error thrown by a step
  uCalls         \* the Class handlers called, with the instance passed

uVars == <<uOp, uVar, uData, uSeqId, uStatus, uErr, uCalls>>

VARIABLES
  \* a context applying one comparison step to two operands
  cOp,           \* "lt", "le", "gt", "ge", "eq", "ne" or "eeq"
  cOp1,          \* the first operand as it was pushed
  cOp2,          \* the second operand as it was pushed
  cData,         \* the data stack
  cBase,         \* the data stack depth below the two operands
  cStatus,       \* "ready", "done" or "error"
  cHandler,      \* the integer the Class op_compare left, if it was called
  cSimp          \* what simplify() gave for the same operator and operands

cVars == <<cOp, cOp1, cOp2, cData, cBase, cStatus, cHandler, cSimp>>

VARIABLES
  \* a context applying an ExprClosure step
  clClosed,      \* m_function->variables().closedCount()
  clLocals,      \* the values of the context's variables the function closes
  clCode,        \* the code stack: frames by name, innermost last
  clData,        \* the data stack
  clPops,        \* how many times popCode() ran
  clClosures,    \* the Closure objects created, with what they captured
  clTokens,      \* the closures handed to the collector
  clAtApply,     \* the values of the variables when the step was applied
  clRead         \* the variable and value a call of the closure read last

clVars == <<clClosed, clLocals, clCode, clData, clPops, clClosures, clTokens,
            clAtApply, clRead>>

VARIABLES
  \* a function frame with a `global` statement
  gSymbols,      \* _p->m_symbols: the names the statement lists, in order
  gDefined,      \* the names the module defines as global variables
  gGlobalVal,    \* the module's global variable slots
  gLocalVal,     \* the local slots of the frame
  gBinding,      \* per name: the slot references of the frame resolve to
  gPhase,        \* "build", "ready", "done" or "error"
  gPops,         \* how many times the statement's frame was popped
  gErr,          \* the error raised by the statement
  gLast          \* the last reference the frame made: read or assign

gVars == <<gSymbols, gDefined, gGlobalVal, gLocalVal, gBinding, gPhase, gPops,
           gErr, gLast>>

VARIABLES
  \* a ModSpace instance and the last call of one of its native methods
  msPath,        \* the search path of the module loader: directories in order
  msFunc,        \* the method invoked last ("none" before the first call)
  msArg,         \* its first argument (NullParam when none was passed)
  msRaised,      \* how many errors the call raised
  msReturned,    \* how many times the call ran VMContext::returnFrame
  msPushed       \* how many return steps the call pushed on the code stack

msVars == <<msPath, msFunc, msArg, msRaised, msReturned, msPushed>>

VARIABLES
  \* a Function being declared from a description string
  fdDesc,        \* the description handed to parseDescription
  fdNames,       \* m_vars: the names of the parameters, in order
  fdSignature,   \* m_signature
  fdEta,         \* m_bEta
  fdResult       \* what parseDescription returned ("none" before the call)

fdVars == <<fdDesc, fdNames, fdSignature, fdEta, fdResult>>

VARIABLES
  \* the Engine singleton and the calls made on it by the one thread that
  \* initialises and shuts down the engine
  enInstance,    \* Engine::m_instance: 0 or the Engine object it points at
  enConstructed, \* how many Engine objects were constructed so far
  enDestroys,    \* for each constructed Engine, how many times it was deleted
  enCalls,       \* the calls made so far, in order
  enRet          \* what the last instance() call returned

enVars == <<enInstance, enConstructed, enDestroys, enCalls, enRet>>

VARIABLES
  \* the transcoder registry of the Engine and the threads using it
  trCoders,      \* m_tcoders: encoding name -> transcoder, 0 when absent
  trMtx,         \* m_mtx: 0, or the thread holding it
  trPc,          \* where each thread is: "idle", "add" or "get" (mutex held)
  trArg,         \* the argument of each thread's call in progress
  trRet,         \* what each thread's last call returned
  trAdded        \* the transcoders handed to addTranscoder so far, in order

trVars == <<trCoders, trMtx, trPc, trArg, trRet, trAdded>>

VARIABLES
  \* the mark phase over a graph of a ModSpace, a Module, a Writer and the
  \* Writer's Stream
  mkRefs,        \* the objects each object references
  mkMark,        \* the mark stamp each object carries
  mkCur,         \* the mark of the collection in progress (or of the last one)
  mkStack,       \* the gcMark calls still to run, the next one last
  mkRecursed     \* how many times each object's gcMark went into its children
                 \* during this collection

mkVars == <<mkRefs, mkMark, mkCur, mkStack, mkRecursed>>

VARIABLES
  \* one MTRand_interlocked generator shared by the threads
  mtLeft,        \* left: the values left before a reload is needed
  mtMtx,         \* m_mtx: 0, or the thread holding it
  mtOp,          \* the public operation each thread is in ("none" outside)
  mtAt           \* the part of the operation each thread is executing

mtVars == <<mtLeft, mtMtx, mtOp, mtAt>>

VARIABLES
  \* the objects an Engine owns, over several init() / shutdown() rounds
  eoAlive,       \* an Engine object exists
  eoMember,      \* the pointer members of the Engine: name -> object, 0 null
  eoClasses,     \* m_classes: item type -> object, 0 null
  eoTcoders,     \* the transcoders in the map m_tcoders points at
  eoMade,        \* for each object ever allocated, what allocated it
  eoDeleted,     \* for each object ever allocated, how many times it was deleted
  eoRounds       \* how many Engines were constructed so far

eoVars == <<eoAlive, eoMember, eoClasses, eoTcoders, eoMade, eoDeleted, eoRounds>>

vars == <<poolVars, exprVars, starVars, nativeVars, gcVars, tcVars, uVars, cVars, clVars, gVars, msVars, fdVars, enVars, trVars, mkVars, mtVars, eoVars>>

\* what the Pool methods do not touch
notPoolVars == <<exprVars, starVars, nativeVars, gcVars, tcVars, uVars, cVars, clVars, gVars, msVars, fdVars, enVars, trVars, mkVars, mtVars, eoVars>>

\* what the expression steps do not touch
notExprVars == <<poolVars, starVars, nativeVars, gcVars, tcVars, uVars, cVars, clVars, gVars, msVars, fdVars, enVars, trVars, mkVars, mtVars, eoVars>>

\* what the ExprStarIndex step does not touch
notStarVars == <<poolVars, exprVars, nativeVars, gcVars, tcVars, uVars, cVars, clVars, gVars, msVars, fdVars, enVars, trVars, mkVars, mtVars, eoVars>>

\* what the native methods of Module do not touch
notNativeVars == <<poolVars, exprVars, starVars, gcVars, tcVars, uVars, cVars, clVars, gVars, msVars, fdVars, enVars, trVars, mkVars, mtVars, eoVars>>

notGcVars == <<poolVars, exprVars, starVars, nativeVars, tcVars, uVars, cVars, clVars, gVars, msVars, fdVars, enVars, trVars, mkVars, mtVars, eoVars>>

notTcVars == <<poolVars, exprVars, starVars, nativeVars, gcVars, uVars, cVars, clVars, gVars, msVars, fdVars, enVars, trVars, mkVars, mtVars, eoVars>>

notUVars == <<poolVars, exprVars, starVars, nativeVars, gcVars, tcVars, cVars, clVars, gVars, msVars, fdVars, enVars, trVars, mkVars, mtVars, eoVars>>

notCVars == <<poolVars, exprVars, starVars, nativeVars, gcVars, tcVars, uVars, clVars, gVars, msVars, fdVars, enVars, trVars, mkVars, mtVars, eoVars>>

notClVars == <<poolVars, exprVars, starVars, nativeVars, gcVars, tcVars, uVars, cVars, gVars, msVars, fdVars, enVars, trVars, mkVars, mtVars, eoVars>>

notGVars == <<poolVars, exprVars, starVars, nativeVars, gcVars, tcVars, uVars, cVars, clVars, msVars, fdVars, enVars, trVars, mkVars, mtVars, eoVars>>

notMsVars == <<poolVars, exprVars, starVars, nativeVars, gcVars, tcVars, uVars, cVars, clVars, gVars, fdVars, enVars, trVars, mkVars, mtVars, eoVars>>

notFdVars == <<poolVars, exprVars, starVars, nativeVars, gcVars, tcVars, uVars, cVars, clVars, gVars, msVars, enVars, trVars, mkVars, mtVars, eoVars>>

notEnVars == <<poolVars, exprVars, starVars, nativeVars, gcVars, tcVars, uVars, cVars, clVars, gVars, msVars, fdVars, trVars, mkVars, mtVars, eoVars>>

notTrVars == <<poolVars, exprVars, starVars, nativeVars, gcVars, tcVars, uVars, cVars, clVars, gVars, msVars, fdVars, enVars, mkVars, mtVars, eoVars>>

notMkVars == <<poolVars, exprVars, starVars, nativeVars, gcVars, tcVars, uVars, cVars, clVars, gVars, msVars, fdVars, enVars, trVars, mtVars, eoVars>>

notMtVars == <<poolVars, exprVars, starVars, nativeVars, gcVars, tcVars, uVars, cVars, clVars, gVars, msVars, fdVars, enVars, trVars, mkVars, eoVars>>

notEoVars == <<poolVars, exprVars, starVars, nativeVars, gcVars, tcVars, uVars, cVars, clVars, gVars, msVars, fdVars, enVars, trVars, mkVars, mtVars>>

\* ------------------------------------------------------------------------
\* Pool: helpers
\* ------------------------------------------------------------------------
RECURSIVE Chain(_, _, _)
\* the objects reached from pointer h through m_next, at most n of them
Chain(h, nxt, n) ==
  IF h = NULL \/ n = 0 THEN <<>> ELSE <<h>> \o Chain(nxt[h], nxt, n - 1)

FreeList == Chain(m_head, m_next, NObjs + 1)

Range(q) == { q[i] : i \in 1..Len(q) }

Linked == Range(FreeList)

RemoveObj(q, o) == SelectSeq(q, LAMBDA x : x # o)

\* delete o
Delete(o) == [deleted EXCEPT ![o] = IF @ < 2 THEN @ + 1 ELSE @]

PoolInit ==
  /\ m_head = NULL
  /\ m_next = [o \in Objs |-> NULL]
  /\ m_size = 0
  /\ m_maxSize \in 0..MaxPoolBound
  /\ m_mtx = NULL
  /\ pc = [t \in Threads |-> "idle"]
  /\ p = [t \in Threads |-> NULL]
  /\ s = 0
  /\ owner \in [Objs -> Threads]
  /\ held = [o \in Objs |-> 1]
  /\ deleted = [o \in Objs |-> 0]
  /\ linkOrder = <<>>
  /\ onlyReleases = TRUE

\* m_mtx.lock() at the program point "at", continuing at "to"
MtxLock(t, at, to) ==
  /\ pc[t] = at
  /\ m_mtx = NULL
  /\ m_mtx' = t
  /\ pc' = [pc EXCEPT ![t] = to]

MtxUnlock == m_mtx' = NULL

\* ---- uint32 Pool::size() ----
Size_lock(t) ==
  /\ UNCHANGED <<notPoolVars, s>>
  /\ MtxLock(t, "idle", "size_cs")
  /\ UNCHANGED <<m_head, m_next, m_size, m_maxSize, p,
                 owner, held, deleted, linkOrder, onlyReleases>>

\* the value size() returns when its critical section runs now
Size_result == m_size

Size_body(t) ==
  /\ UNCHANGED notPoolVars
  /\ pc[t] = "size_cs"
  /\ s' = Size_result
  /\ MtxUnlock
  /\ pc' = [pc EXCEPT ![t] = "idle"]
  /\ UNCHANGED <<m_head, m_next, m_size, m_maxSize, p,
                 owner, held, deleted, linkOrder, onlyReleases>>

\* ---- void Pool::clear() ----
Clear_lock(t) ==
  /\ UNCHANGED <<notPoolVars, s>>
  /\ MtxLock(t, "idle", "clear_cs")
  /\ onlyReleases' = FALSE
  /\ UNCHANGED <<m_head, m_next, m_size, m_maxSize, p,
                 owner, held, deleted, linkOrder>>

\* one evaluation of "while( m_head != 0 )" with the mutex held
Clear_loop(t) ==
  /\ UNCHANGED <<notPoolVars, s>>
  /\ pc[t] = "clear_cs"
  /\ IF m_head # NULL
       THEN /\ p' = [p EXCEPT ![t] = m_head]
            /\ m_head' = m_next[m_head]
            /\ linkOrder' = RemoveObj(linkOrder, m_head)
            /\ pc' = [pc EXCEPT ![t] = "clear_delete"]
            /\ UNCHANGED m_size
       ELSE /\ m_size' = 0
            /\ pc' = [pc EXCEPT ![t] = "idle"]
            /\ UNCHANGED <<p, m_head, linkOrder>>
  /\ MtxUnlock
  /\ UNCHANGED <<m_next, m_maxSize, owner, held, deleted, onlyReleases>>

\* "delete p" outside of the mutex
Clear_delete(t) ==
  /\ UNCHANGED <<notPoolVars, s>>
  /\ pc[t] = "clear_delete"
  /\ deleted' = Delete(p[t])
  /\ p' = [p EXCEPT ![t] = NULL]
  /\ pc' = [pc EXCEPT ![t] = "clear_relock"]
  /\ UNCHANGED <<m_head, m_next, m_size, m_maxSize, m_mtx,
                 owner, held, linkOrder, onlyReleases>>

Clear_relock(t) ==
  /\ UNCHANGED <<notPoolVars, s>>
  /\ MtxLock(t, "clear_relock", "clear_cs")
  /\ UNCHANGED <<m_head, m_next, m_size, m_maxSize, p,
                 owner, held, deleted, linkOrder, onlyReleases>>

\* ---- Poolable* Pool::get() ----
Get_lock(t) ==
  /\ UNCHANGED <<notPoolVars, s>>
  /\ MtxLock(t, "idle", "get_cs")
  /\ onlyReleases' = FALSE
  /\ UNCHANGED <<m_head, m_next, m_size, m_maxSize, p,
                 owner, held, deleted, linkOrder>>

Get_newHead_skip(h, nxt) == h

\* m_head = m_head->m_next
Get_newHead(h, nxt) == nxt[h]

Get_newSize_keep(sz) == sz

\* m_size--
Get_newSize(sz) == sz - 1

Get_body(t) ==
  /\ UNCHANGED <<notPoolVars, s>>
  /\ pc[t] = "get_cs"
  /\ p' = [p EXCEPT ![t] = m_head]
  /\ IF m_head # NULL
       THEN /\ m_head' = Get_newHead(m_head, m_next)
            /\ m_size' = Get_newSize(m_size)
            /\ linkOrder' = RemoveObj(linkOrder, m_head)
       ELSE UNCHANGED <<m_head, m_size, linkOrder>>
  /\ MtxUnlock
  /\ pc' = [pc EXCEPT ![t] = "get_ret"]
  /\ UNCHANGED <<m_next, m_maxSize, owner, held, deleted, onlyReleases>>

\* "return p": the caller receives the pointer
Get_return(t) ==
  /\ UNCHANGED <<notPoolVars, s>>
  /\ pc[t] = "get_ret"
  /\ IF p[t] # NULL
       THEN /\ owner' = [owner EXCEPT ![p[t]] = t]
            /\ held' = [held EXCEPT ![p[t]] = IF @ < 2 THEN @ + 1 ELSE @]
       ELSE UNCHANGED <<owner, held>>
  /\ p' = [p EXCEPT ![t] = NULL]
  /\ pc' = [pc EXCEPT ![t] = "idle"]
  /\ UNCHANGED <<m_head, m_next, m_size, m_maxSize, m_mtx,
                 deleted, linkOrder, onlyReleases>>

\* ---- void Pool::release( Poolable* data ) ----
\* the caller passes an object it holds; the object is live
Release_lock(t, o) ==
  /\ UNCHANGED <<notPoolVars, s>>
  /\ owner[o] = t
  /\ held[o] > 0
  /\ MtxLock(t, "idle", "release_cs")
  /\ p' = [p EXCEPT ![t] = o]
  /\ owner' = [owner EXCEPT ![o] = NULL]
  /\ held' = [held EXCEPT ![o] = @ - 1]
  /\ UNCHANGED <<m_head, m_next, m_size, m_maxSize,
                 deleted, linkOrder, onlyReleases>>

Release_retains_le(sz, mx) == sz <= mx

\* if( m_size < m_maxSize )
Release_retains(sz, mx) == sz < mx

Release_body(t) ==
  /\ UNCHANGED <<notPoolVars, s>>
  /\ pc[t] = "release_cs"
  /\ IF Release_retains(m_size, m_maxSize)
       THEN /\ m_size' = m_size + 1
            /\ m_next' = [m_next EXCEPT ![p[t]] = m_head]
            /\ m_head' = p[t]
            /\ linkOrder' = Append(linkOrder, p[t])
            /\ p' = [p EXCEPT ![t] = NULL]
            /\ pc' = [pc EXCEPT ![t] = "idle"]
       ELSE /\ pc' = [pc EXCEPT ![t] = "release_delete"]
            /\ UNCHANGED <<m_size, m_next, m_head, linkOrder, p>>
  /\ MtxUnlock
  /\ UNCHANGED <<m_maxSize, owner, held, deleted, onlyReleases>>

\* "delete data" outside of the mutex
Release_delete(t) ==
  /\ UNCHANGED <<notPoolVars, s>>
  /\ pc[t] = "release_delete"
  /\ deleted' = Delete(p[t])
  /\ p' = [p EXCEPT ![t] = NULL]
  /\ pc' = [pc EXCEPT ![t] = "idle"]
  /\ UNCHANGED <<m_head, m_next, m_size, m_maxSize, m_mtx,
                 owner, held, linkOrder, onlyReleases>>

PoolNext ==
  \E t \in Threads :
    \/ Size_lock(t) \/ Size_body(t)
    \/ Clear_lock(t) \/ Clear_loop(t) \/ Clear_delete(t) \/ Clear_relock(t)
    \/ Get_lock(t) \/ Get_body(t) \/ Get_return(t)
    \/ (\E o \in Objs : Release_lock(t, o))
    \/ Release_body(t) \/ Release_delete(t)


\* ------------------------------------------------------------------------
\* Pool: properties
\* ------------------------------------------------------------------------
Destroyed == { o \in Objs : deleted[o] > 0 }

\* no thread is inside a Pool method
Quiescent == \A t \in Threads : pc[t] = "idle"

\* pointers held in the locals of a Pool method that is between two steps
InTransit(o) ==
  { t \in Threads : p[t] = o /\
       pc[t] \in {"clear_delete", "get_ret", "release_cs", "release_delete"} }

Refs(o) == held[o] + Cardinality(InTransit(o))

Occurrences(q, o) == Cardinality({ i \in 1..Len(q) : q[i] = o })

\* C1: the free list never holds more than maxSize objects; a release() that
\* finds maxSize objects in the list deletes its object and leaves the list
\* alone; after releasing maxSize+1 objects into the empty pool (nothing else
\* called) exactly maxSize are retained and exactly one is destroyed.
C1_PoolBound ==
  /\ [](Len(FreeList) <= m_maxSize)
  /\ [][\A t \in Threads :
          (pc[t] = "release_cs" /\ pc'[t] # "release_cs"
              /\ Len(FreeList) = m_maxSize)
          => (pc'[t] = "release_delete" /\ FreeList' = FreeList
              /\ p'[t] = p[t])]_vars
  /\ []((onlyReleases /\ Quiescent
          /\ Cardinality(Linked \cup Destroyed) = m_maxSize + 1)
        => (Len(FreeList) = m_maxSize /\ Cardinality(Linked) = m_maxSize
            /\ Cardinality(Destroyed) = 1))

C1_Witness ==
  /\ onlyReleases /\ Quiescent
  /\ m_maxSize = 2
  /\ Cardinality(Linked) = 2
  /\ Cardinality(Destroyed) = 1

\* C9: get() on an empty free list returns null and changes nothing in the
\* pool; otherwise it returns the object linked last among those still in
\* the pool, unlinks exactly that object and decreases size() by one.
C9_GetLifo ==
  [][\A t \in Threads :
       (pc[t] = "get_cs" /\ pc'[t] = "get_ret")
       => IF FreeList = <<>>
            THEN /\ p'[t] = NULL
                 /\ FreeList' = FreeList
                 /\ m_size' = m_size
            ELSE /\ linkOrder # <<>>
                 /\ p'[t] = linkOrder[Len(linkOrder)]
                 /\ FreeList' = Tail(FreeList)
                 /\ p'[t] \notin Range(FreeList')
                 /\ m_size' = m_size - 1]_vars

C9_Witness ==
  \E t \in Threads :
    /\ pc[t] = "get_ret"
    /\ p[t] # NULL
    /\ m_head # NULL
    /\ \E u \in Threads : pc[u] = "get_ret" /\ p[u] = NULL

\* C28: whenever no thread holds the pool mutex, the counter size() reports
\* equals the number of objects linked in the free list, also while clear()
\* is in progress on one thread and get() or release() run on others; so
\* release() destroys its object only when the free list holds maxSize
\* objects.
C28_SizeMatchesFreeList ==
  /\ [](m_mtx = NULL => m_size = Len(FreeList))
  /\ [][\A t \in Threads :
          (pc[t] = "release_cs" /\ pc'[t] = "release_delete")
             => Len(FreeList) = m_maxSize]_vars

\* the same outside of clear(): the counter and the list agree whenever the
\* mutex is free and no thread is between two iterations of clear()
C28_SizeMatchesOutsideClear ==
  (m_mtx = NULL /\ \A t \in Threads : pc[t] \notin {"clear_delete", "clear_relock"})
     => m_size = Len(FreeList)

\* C10: every object is in exactly one of the states held by a caller (or by
\* the Pool method working on it), linked in the free list, destroyed: never
\* handed out twice, never linked after its deletion, never deleted twice.
C10_ObjectStates ==
  \A o \in Objs :
    \/ (deleted[o] = 0 /\ Occurrences(FreeList, o) = 0 /\ Refs(o) = 1)
    \/ (deleted[o] = 0 /\ Occurrences(FreeList, o) = 1 /\ Refs(o) = 0)
    \/ (deleted[o] = 1 /\ Occurrences(FreeList, o) = 0 /\ Refs(o) = 0)

C10_Witness ==
  /\ \E o \in Objs : o \in Linked
  /\ \E t \in Threads : pc[t] = "clear_delete"
  /\ \E t \in Threads : pc[t] = "get_ret" /\ p[t] # NULL

\* ------------------------------------------------------------------------
\* Items
\* ------------------------------------------------------------------------
NilItem == [t |-> "nil", v |-> 0]
BoolItem(b) == [t |-> "bool", v |-> IF b THEN 1 ELSE 0]
IntItem(n) == [t |-> "int", v |-> n]
\* a floating point item holding the whole number n
NumItem(n) == [t |-> "num", v |-> n]

\* Item::isTrue
IsTrue(i) ==
  CASE i.t = "nil" -> FALSE
    [] i.t = "bool" -> i.v = 1
    [] OTHER -> i.v # 0

LeafItems == { BoolItem(FALSE), IntItem(2), IntItem(3), IntItem(4) }

\* ------------------------------------------------------------------------
\* Expression trees
\* ------------------------------------------------------------------------
Leaf(i) == [op |-> "value", v |-> i]
Unary(o, a) == [op |-> o, first |-> a]
Binary(o, a, b) == [op |-> o, first |-> a, second |-> b]
Ternary(o, a, b, c) == [op |-> o, first |-> a, second |-> b, third |-> c]

UnaryOps == {"not"}
BinaryOps == {"add", "mul"}
GatedOps == {"and", "or"}

Arity(e) ==
  CASE e.op = "value" -> 0
    [] e.op \in UnaryOps -> 1
    [] e.op \in BinaryOps \cup GatedOps -> 2
    [] OTHER -> 3

Child(e, k) == IF k = 1 THEN e.first ELSE IF k = 2 THEN e.second ELSE e.third

\* e is a tree whose precompiled sequence has exactly n steps, given in tbl
\* the sets of trees of every smaller length (tbl[k] for k steps)
IsExprOfLen(e, n, tbl) ==
  LET Sub(k) == IF k >= 1 /\ k < n /\ k <= Len(tbl) THEN tbl[k] ELSE {}
  IN  \/ n = 1 /\ \E i \in LeafItems : e = Leaf(i)
      \/ \E o \in UnaryOps, a \in Sub(n - 1) : e = Unary(o, a)
      \/ \E k \in 1..n : \E o \in BinaryOps, a \in Sub(k), b \in Sub(n - 1 - k) :
           e = Binary(o, a, b)
      \/ \E k \in 1..n : \E o \in GatedOps, a \in Sub(k), b \in Sub(n - 2 - k) :
           e = Binary(o, a, b)
      \/ \E k \in 1..n, j \in 1..n :
           \E a \in Sub(k), b \in Sub(j), c \in Sub(n - 2 - k - j) :
             e = Ternary("iif", a, b, c)

\* the set of those trees
ExprsOfLen(n, tbl) ==
  LET Sub(k) == IF k >= 1 /\ k < n THEN tbl[k] ELSE {}
  IN  IF n = 1 THEN { Leaf(i) : i \in LeafItems }
      ELSE
        { Unary(o, a) : o \in UnaryOps, a \in Sub(n - 1) }
        \cup UNION { { Binary(o, a, b) : o \in BinaryOps, a \in Sub(k),
                                         b \in Sub(n - 1 - k) } : k \in 1..n }
        \cup UNION { { Binary(o, a, b) : o \in GatedOps, a \in Sub(k),
                                         b \in Sub(n - 2 - k) } : k \in 1..n }
        \cup UNION { UNION { { Ternary("iif", a, b, c) : a \in Sub(k),
                                b \in Sub(j), c \in Sub(n - 2 - k - j) }
                             : j \in 1..n } : k \in 1..n }

RECURSIVE ExprTable(_, _)
ExprTable(n, tbl) ==
  IF n >= MaxLen THEN tbl ELSE ExprTable(n + 1, Append(tbl, ExprsOfLen(n, tbl)))

\* the sets of trees of 1 .. MaxLen-1 steps
ExprLevels == ExprTable(1, <<>>)

\* ------------------------------------------------------------------------
\* Precompilation: PCode::pushStep and the precompile methods
\* ------------------------------------------------------------------------
\* a step of the PCode: which node pushed it, which of the node's steps it
\* is, and the sequence id stored in it (-1 when the step stores none)
Step(kind, path, jump, val) ==
  [kind |-> kind, node |-> path, jump |-> jump, v |-> val]

\* pcode->pushStep( step )
PushStep(code, st) == Append(code, st)

RECURSIVE Precompile(_, _, _)

\* Expression::precompile
Expression_precompile(e, path, code) ==
  PushStep(code, Step(e.op, path, -1, e.v))

\* UnaryExpression::precompile
UnaryExpression_precompile(e, path, code) ==
  LET c1 == Precompile(e.first, path \o <<1>>, code)
  IN  PushStep(c1, Step(e.op, path, -1, NilItem))

BinaryExpression_precompile_swapped(e, path, code) ==
  LET c1 == Precompile(e.second, path \o <<2>>, code)
      c2 == Precompile(e.first, path \o <<1>>, c1)
  IN  PushStep(c2, Step(e.op, path, -1, NilItem))

\* BinaryExpression::precompile
BinaryExpression_precompile(e, path, code) ==
  LET c1 == Precompile(e.first, path \o <<1>>, code)
      c2 == Precompile(e.second, path \o <<2>>, c1)
  IN  PushStep(c2, Step(e.op, path, -1, NilItem))

\* the sequence id a short-circuit gate is given: pcode->size() once the
\* node's own step is pushed
ShortCircuitSeqId_atGate(gateIdx, size) == gateIdx - 1

ShortCircuitSeqId_atSecond(gateIdx, size) == gateIdx

ShortCircuitSeqId(gateIdx, size) == size

\* ExprAnd::precompile and ExprOr::precompile (same text)
Gated_precompile(e, path, code) ==
  LET c1 == Precompile(e.first, path \o <<1>>, code)
      c2 == PushStep(c1, Step(e.op \o "_gate", path, -1, NilItem))
      gateIdx == Len(c2)
      c3 == Precompile(e.second, path \o <<2>>, c2)
      c4 == PushStep(c3, Step(e.op, path, -1, NilItem))
  IN  [c4 EXCEPT ![gateIdx].jump = ShortCircuitSeqId(gateIdx, Len(c4))]

ExprAnd_precompile(e, path, code) == Gated_precompile(e, path, code)

ExprOr_precompile(e, path, code) == Gated_precompile(e, path, code)

ExprIIF_precompile_early(e, path, code) ==
  LET c1 == Precompile(e.first, path \o <<1>>, code)
      c2 == PushStep(c1, Step("iif", path, -1, NilItem))
      iifIdx == Len(c2)
      c3 == Precompile(e.second, path \o <<2>>, c2)
      m_falseSeqId == Len(c3)
      c4 == PushStep(c3, Step("iif_gate", path, -1, NilItem))
      gateIdx == Len(c4)
      c5 == Precompile(e.third, path \o <<3>>, c4)
      m_endSeqId == Len(c5)
  IN  [c5 EXCEPT ![iifIdx].jump = m_falseSeqId, ![gateIdx].jump = m_endSeqId]

\* ExprIIF::precompile
ExprIIF_precompile(e, path, code) ==
  LET c1 == Precompile(e.first, path \o <<1>>, code)
      c2 == PushStep(c1, Step("iif", path, -1, NilItem))
      iifIdx == Len(c2)
      c3 == Precompile(e.second, path \o <<2>>, c2)
      c4 == PushStep(c3, Step("iif_gate", path, -1, NilItem))
      gateIdx == Len(c4)
      m_falseSeqId == Len(c4)
      c5 == Precompile(e.third, path \o <<3>>, c4)
      m_endSeqId == Len(c5)
  IN  [c5 EXCEPT ![iifIdx].jump = m_falseSeqId, ![gateIdx].jump = m_endSeqId]

\* virtual dispatch of precompile
Precompile(e, path, code) ==
  CASE e.op = "value" -> Expression_precompile(e, path, code)
    [] e.op \in UnaryOps -> UnaryExpression_precompile(e, path, code)
    [] e.op \in BinaryOps -> BinaryExpression_precompile(e, path, code)
    [] e.op = "and" -> ExprAnd_precompile(e, path, code)
    [] e.op = "or" -> ExprOr_precompile(e, path, code)
    [] OTHER -> ExprIIF_precompile(e, path, code)

\* ------------------------------------------------------------------------
\* Compile-time evaluation (the simplify methods)
\* ------------------------------------------------------------------------
\* integer operators stay in the integer domain; other operand types are
\* invalid operands
MathResult(op, a, b) ==
  IF a.t = "int" /\ b.t = "int"
    THEN [ok |-> TRUE, v |-> IntItem(IF op = "add" THEN a.v + b.v ELSE a.v * b.v)]
    ELSE [ok |-> FALSE, v |-> NilItem]

RECURSIVE Simplify(_)
\* ExprNot::simplify, ExprAnd::simplify, ExprOr::simplify, ExprIIF::simplify
Simplify(e) ==
  CASE e.op = "value" -> [ok |-> TRUE, v |-> e.v]
    [] e.op = "not" ->
         LET fi == Simplify(e.first)
         IN  IF fi.ok THEN [ok |-> TRUE, v |-> BoolItem(~IsTrue(fi.v))] ELSE fi
    [] e.op = "and" ->
         LET fi == Simplify(e.first)
             si == Simplify(e.second)
         IN  IF fi.ok /\ si.ok
               THEN [ok |-> TRUE, v |-> BoolItem(IsTrue(fi.v) /\ IsTrue(si.v))]
               ELSE [ok |-> FALSE, v |-> NilItem]
    [] e.op = "or" ->
         LET fi == Simplify(e.first)
             si == Simplify(e.second)
         IN  IF fi.ok /\ si.ok
               THEN [ok |-> TRUE, v |-> BoolItem(IsTrue(fi.v) \/ IsTrue(si.v))]
               ELSE [ok |-> FALSE, v |-> NilItem]
    [] e.op = "iif" ->
         LET temp == Simplify(e.first)
         IN  IF temp.ok
               THEN IF IsTrue(temp.v) THEN Simplify(e.second)
                                      ELSE Simplify(e.third)
               ELSE [ok |-> FALSE, v |-> NilItem]
    [] OTHER ->
         LET fi == Simplify(e.first)
             si == Simplify(e.second)
         IN  IF fi.ok /\ si.ok THEN MathResult(e.op, fi.v, si.v)
                               ELSE [ok |-> FALSE, v |-> NilItem]

\* ------------------------------------------------------------------------
\* Execution of the PCode frame
\* ------------------------------------------------------------------------
ExprInit ==
  /\ \E n \in 1..MaxLen : IsExprOfLen(expr, n, ExprLevels)
  /\ pcode = Precompile(expr, <<>>, <<>>)
  /\ seqId = 0
  /\ baseDepth \in 0..1
  /\ dataStack = [i \in 1..baseDepth |-> NilItem]
  /\ status = "running"
  /\ trace = <<>>

\* ctx->topData()
TopData == dataStack[Len(dataStack)]

\* ctx->popData()
PopData(st) == SubSeq(st, 1, Len(st) - 1)

\* assignment through the reference returned by topData()
SetTop(st, i) == [st EXCEPT ![Len(st)] = i]

\* PCode::apply_ takes the step at m_seqId and advances m_seqId before the
\* step is applied
Fetch(kinds) ==
  /\ status = "running"
  /\ seqId < Len(pcode)
  /\ pcode[seqId + 1].kind \in kinds
  /\ trace' = Append(trace, seqId)

CurStep == pcode[seqId + 1]

\* the step of a value expression pushes its item
Apply_Value ==
  /\ UNCHANGED notExprVars
  /\ Fetch({"value"})
  /\ dataStack' = Append(dataStack, CurStep.v)
  /\ seqId' = seqId + 1
  /\ UNCHANGED <<expr, pcode, baseDepth, status>>

\* ExprNot::apply_
Apply_Not ==
  /\ UNCHANGED notExprVars
  /\ Fetch({"not"})
  /\ dataStack' = SetTop(dataStack, BoolItem(~IsTrue(TopData)))
  /\ seqId' = seqId + 1
  /\ UNCHANGED <<expr, pcode, baseDepth, status>>

\* the step of an arithmetic expression: two operands in, one result out
Apply_Math ==
  /\ UNCHANGED notExprVars
  /\ Fetch(BinaryOps)
  /\ LET op1 == dataStack[Len(dataStack) - 1]
         op2 == TopData
         r == MathResult(CurStep.kind, op1, op2)
     IN  IF r.ok
           THEN /\ dataStack' = SetTop(PopData(dataStack), r.v)
                /\ status' = status
           ELSE /\ status' = "error"
                /\ dataStack' = dataStack
  /\ seqId' = seqId + 1
  /\ UNCHANGED <<expr, pcode, baseDepth>>

\* ExprAnd::apply_
Apply_And ==
  /\ UNCHANGED notExprVars
  /\ Fetch({"and"})
  /\ dataStack' = SetTop(dataStack, BoolItem(IsTrue(TopData)))
  /\ seqId' = seqId + 1
  /\ UNCHANGED <<expr, pcode, baseDepth, status>>

\* ExprAnd::Gate::apply_
Apply_AndGate ==
  /\ UNCHANGED notExprVars
  /\ Fetch({"and_gate"})
  /\ IF ~IsTrue(TopData)
       THEN /\ dataStack' = SetTop(dataStack, BoolItem(FALSE))
            /\ seqId' = CurStep.jump
       ELSE /\ dataStack' = PopData(dataStack)
            /\ seqId' = seqId + 1
  /\ UNCHANGED <<expr, pcode, baseDepth, status>>

\* ExprOr::apply_
Apply_Or ==
  /\ UNCHANGED notExprVars
  /\ Fetch({"or"})
  /\ dataStack' = SetTop(dataStack, BoolItem(IsTrue(TopData)))
  /\ seqId' = seqId + 1
  /\ UNCHANGED <<expr, pcode, baseDepth, status>>

Apply_OrGate_asAnd ==
  /\ UNCHANGED notExprVars
  /\ Fetch({"or_gate"})
  /\ IF ~IsTrue(TopData)
       THEN /\ dataStack' = SetTop(dataStack, BoolItem(TRUE))
            /\ seqId' = CurStep.jump
       ELSE /\ dataStack' = PopData(dataStack)
            /\ seqId' = seqId + 1
  /\ UNCHANGED <<expr, pcode, baseDepth, status>>

\* ExprOr::Gate::apply_
Apply_OrGate ==
  /\ UNCHANGED notExprVars
  /\ Fetch({"or_gate"})
  /\ IF IsTrue(TopData)
       THEN /\ dataStack' = SetTop(dataStack, BoolItem(TRUE))
            /\ seqId' = CurStep.jump
       ELSE /\ dataStack' = PopData(dataStack)
            /\ seqId' = seqId + 1
  /\ UNCHANGED <<expr, pcode, baseDepth, status>>

\* ExprIIF::apply_
Apply_IIF ==
  /\ UNCHANGED notExprVars
  /\ Fetch({"iif"})
  /\ LET cond == TopData
     IN  /\ dataStack' = PopData(dataStack)
         /\ seqId' = IF ~IsTrue(cond) THEN CurStep.jump ELSE seqId + 1
  /\ UNCHANGED <<expr, pcode, baseDepth, status>>

\* ExprIIF::Gate::apply_
Apply_IIFGate ==
  /\ UNCHANGED notExprVars
  /\ Fetch({"iif_gate"})
  /\ seqId' = CurStep.jump
  /\ UNCHANGED <<expr, pcode, baseDepth, status, dataStack>>

\* PCode::apply_ found no step left: the frame is popped
PCode_complete ==
  /\ UNCHANGED notExprVars
  /\ status = "running"
  /\ seqId >= Len(pcode)
  /\ status' = "done"
  /\ UNCHANGED <<expr, pcode, seqId, dataStack, baseDepth, trace>>

ExprNext ==
  \/ Apply_Value \/ Apply_Not \/ Apply_Math
  \/ Apply_And \/ Apply_AndGate \/ Apply_Or \/ Apply_OrGate
  \/ Apply_IIF \/ Apply_IIFGate
  \/ PCode_complete

\* ------------------------------------------------------------------------
\* ExprStarIndex::apply_ on a context whose sub-expressions may suspend
\* ------------------------------------------------------------------------
StringItem(id) == [t |-> "string", v |-> id]

\* the strings the indexed sub-expression can produce, as character codes
Strings == << <<104, 105>>, <<111, 107>> >>

\* String::getCharAt
GetCharAt(id, i) == Strings[id][i + 1]

\* Item::isString
IsString(i) == i.t = "string"

\* Item::isOrdinal
IsOrdinal(i) == i.t \in {"int", "num"}

\* Item::forceInteger
ForceInteger(i) == i.v

\* what self->second(), the index, can evaluate to
IndexValues == { IntItem(0), IntItem(1), NumItem(1), NilItem }

\* what self->first(), the indexed item, can evaluate to
TargetValues == { StringItem(1), StringItem(2), IntItem(4) }

Frame(step, id, left) == [step |-> step, seqId |-> id, left |-> left]

StarInit ==
  /\ codeStack = <<Frame("caller", 0, 0), Frame("starindex", 0, 0)>>
  /\ starBase \in 0..MaxBaseDepth
  /\ ctxData = [i \in 1..starBase |-> NilItem]
  /\ evalLog = <<>>
  /\ produced = <<>>
  /\ starPops = 0
  /\ starStatus = "running"

TopCode == codeStack[Len(codeStack)]

\* ctx->popCode()
PopCode(cs) == SubSeq(cs, 1, Len(cs) - 1)

NextSeqId_stale(k) == k

\* cs.m_seqId = 1 in case 0, cs.m_seqId = 2 in case 1
NextSeqId(k) == k + 1

\* ctx->stepInYield( sub, cs ): the sub-expression either completes inline,
\* leaving its item on the data stack (yield = FALSE), or stays on the code
\* stack with n steps to go (yield = TRUE)
StepInYield(st, sub, yield, n, val) ==
  IF yield
    THEN [st EXCEPT !.code = Append(@, Frame(sub, 0, n)),
                    !.log = Append(@, [sub |-> sub, yielded |-> TRUE]),
                    !.yielded = TRUE]
    ELSE [st EXCEPT !.data = Append(@, val),
                    !.log = Append(@, [sub |-> sub, yielded |-> FALSE]),
                    !.prod = Append(@, val)]

\* case 0 of the switch
Star_case0(st, yield, n, val) ==
  LET st1 == [st EXCEPT !.code[Len(st.code)].seqId = NextSeqId(0)]
  IN  StepInYield(st1, "second", yield, n, val)

\* case 1 of the switch
Star_case1(st, yield, n, val) ==
  LET st1 == [st EXCEPT !.code[Len(st.code)].seqId = NextSeqId(1)]
  IN  StepInYield(st1, "first", yield, n, val)

\* the code after the switch
Star_finish(st) ==
  LET code1 == PopCode(st.code)
      str == st.data[Len(st.data)]
      data1 == PopData(st.data)
      index == data1[Len(data1)]
  IN  IF IsString(str) /\ IsOrdinal(index)
        THEN [st EXCEPT !.code = code1, !.pops = @ + 1,
                        !.data = SetTop(data1, IntItem(GetCharAt(str.v, ForceInteger(index)))),
                        !.status = "done"]
        ELSE [st EXCEPT !.code = code1, !.pops = @ + 1,
                        !.data = data1,
                        !.status = "error"]

\* ExprStarIndex::apply_, one call from the context's loop
Star_apply ==
  /\ UNCHANGED notStarVars
  /\ starStatus = "running"
  /\ TopCode.step = "starindex"
  /\ \E y2 \in BOOLEAN, y1 \in BOOLEAN, n \in 1..MaxSubSteps,
        v2 \in IndexValues, v1 \in TargetValues :
       LET st0 == [code |-> codeStack, data |-> ctxData, log |-> evalLog,
                   prod |-> produced, pops |-> starPops,
                   status |-> starStatus, yielded |-> FALSE]
           entry == TopCode.seqId
           st1 == IF entry = 0 THEN Star_case0(st0, y2, n, v2) ELSE st0
           st2 == IF ~st1.yielded /\ entry \in {0, 1}
                    THEN Star_case1(st1, y1, n, v1) ELSE st1
           st3 == IF ~st2.yielded THEN Star_finish(st2) ELSE st2
       IN  /\ codeStack' = st3.code
           /\ ctxData' = st3.data
           /\ evalLog' = st3.log
           /\ produced' = st3.prod
           /\ starPops' = st3.pops
           /\ starStatus' = st3.status
           /\ UNCHANGED starBase

\* a suspended sub-expression advances without completing
Sub_step ==
  /\ UNCHANGED notStarVars
  /\ starStatus = "running"
  /\ TopCode.step \in {"first", "second"}
  /\ TopCode.left > 1
  /\ codeStack' = [codeStack EXCEPT ![Len(codeStack)].left = @ - 1,
                                    ![Len(codeStack)].seqId = @ + 1]
  /\ UNCHANGED <<ctxData, starBase, evalLog, produced, starPops, starStatus>>

\* a suspended sub-expression completes: it leaves its item and pops itself
Sub_complete ==
  /\ UNCHANGED notStarVars
  /\ starStatus = "running"
  /\ TopCode.step \in {"first", "second"}
  /\ TopCode.left = 1
  /\ \E val \in (IF TopCode.step = "second" THEN IndexValues ELSE TargetValues) :
       /\ ctxData' = Append(ctxData, val)
       /\ produced' = Append(produced, val)
  /\ codeStack' = PopCode(codeStack)
  /\ UNCHANGED <<starBase, evalLog, starPops, starStatus>>

StarNext == Star_apply \/ Sub_step \/ Sub_complete

\* ------------------------------------------------------------------------
\* Expressions: properties
\* ------------------------------------------------------------------------
IsPrefix(a, b) == Len(a) <= Len(b) /\ SubSeq(b, 1, Len(a)) = a

\* sequence ids of the steps pushed by the subtree at path
StepsOf(path) == { i \in 0..(Len(pcode) - 1) : IsPrefix(path, pcode[i + 1].node) }

\* sequence ids of the steps applied so far
Executed == Range(trace)

RECURSIVE SubExpr(_, _)
SubExpr(e, path) ==
  IF path = <<>> THEN e ELSE SubExpr(Child(e, Head(path)), Tail(path))

NodePaths == { pcode[i].node : i \in 1..Len(pcode) }

Value(e) == Simplify(e).v
Known(e) == Simplify(e).ok

\* C2: in `(a and b) or c` with a false no step of b is applied, and once
\* the sequence is complete the data stack is one item deeper than at start.
C2_ShortCircuit ==
  (/\ expr.op = "or" /\ expr.first.op = "and"
   /\ Known(expr.first.first) /\ ~IsTrue(Value(expr.first.first)))
  => /\ Executed \cap StepsOf(<<1, 2>>) = {}
     /\ status = "done" => Len(dataStack) = baseDepth + 1

C2_Witness ==
  /\ expr.op = "or" /\ expr.first.op = "and"
  /\ expr.first.first = Leaf(BoolItem(FALSE))
  /\ expr.first.second = Leaf(IntItem(3))
  /\ status = "done"
  /\ baseDepth = 1
  /\ Len(dataStack) = 2

JumpKinds == {"and_gate", "or_gate", "iif", "iif_gate"}

LogicOps == {"value", "and", "or", "iif"}

\* C4: the sequence id of the frame never decreases, every sequence id stored
\* in a gate or ternary step is greater than the step's own index and at most
\* the length of the sequence, and a sequence built from and/or/ternary
\* nodes is executed to its end.
C4_ForwardOnly ==
  /\ [][seqId' >= seqId]_vars
  /\ [](\A i \in 1..Len(pcode) :
          pcode[i].kind \in JumpKinds
          => (pcode[i].jump > i - 1 /\ pcode[i].jump <= Len(pcode)))
  /\ ((\A n \in NodePaths : SubExpr(expr, n).op \in LogicOps)
        => <>(status = "done" /\ seqId = Len(pcode)))

C4_Witness ==
  /\ status = "done"
  /\ expr.op = "or" /\ expr.first.op = "and"
  /\ trace = <<0, 1, 4, 5, 6>>
  /\ seqId = Len(pcode)

\* the one step a node pushes for itself (gates apart)
OwnSteps(path) ==
  { i \in StepsOf(path) : pcode[i + 1].node = path /\
                          pcode[i + 1].kind = SubExpr(expr, path).op }

PostOrderAt(path) ==
  LET e == SubExpr(expr, path)
      own == OwnSteps(path)
      c1 == StepsOf(path \o <<1>>)
      c2 == StepsOf(path \o <<2>>)
  IN  /\ Cardinality(own) = 1
      /\ c1 # {}
      /\ \A i \in c1, o \in own : i < o
      /\ e.op \in BinaryOps =>
           /\ c2 # {}
           /\ \A i \in c1, j \in c2 : i < j
           /\ \A j \in c2, o \in own : j < o
      /\ StepsOf(path) = own \cup c1 \cup (IF e.op \in BinaryOps THEN c2 ELSE {})

Kinds == [i \in 1..Len(pcode) |-> pcode[i].kind]

\* C5: the step of a unary or binary node comes after all steps of its
\* children, first child before second, and is pushed once (a + b * c gives
\* a, b, c, mul, add); push 3, push 4, mul, push 2, add run on the empty
\* data stack leaves the single integer 14.
C5_PostOrder ==
  /\ pcode = Precompile(expr, <<>>, <<>>)
  /\ trace = <<>> =>
       \A n \in NodePaths :
         SubExpr(expr, n).op \in UnaryOps \cup BinaryOps => PostOrderAt(n)
  /\ (expr.op = "add" /\ expr.first.op = "value" /\ expr.second.op = "mul"
      /\ expr.second.first.op = "value" /\ expr.second.second.op = "value")
     => /\ Kinds = <<"value", "value", "value", "mul", "add">>
        /\ [i \in 1..5 |-> pcode[i].node] = << <<1>>, <<2, 1>>, <<2, 2>>, <<2>>, <<>> >>
        /\ <<pcode[1].v, pcode[2].v, pcode[3].v>>
             = <<expr.first.v, expr.second.first.v, expr.second.second.v>>
  /\ (/\ Kinds = <<"value", "value", "mul", "value", "add">>
      /\ <<pcode[1].v, pcode[2].v, pcode[4].v>> = <<IntItem(3), IntItem(4), IntItem(2)>>
      /\ baseDepth = 0 /\ status = "done")
     => dataStack = <<IntItem(14)>>

C5_Witness ==
  /\ expr = Binary("add", Binary("mul", Leaf(IntItem(3)), Leaf(IntItem(4))),
                   Leaf(IntItem(2)))
  /\ baseDepth = 0
  /\ status = "done"
  /\ trace = <<0, 1, 2, 3, 4>>
  /\ dataStack = <<IntItem(14)>>

\* C6: for `c ? t : f` the steps of c are applied first, then steps of the
\* branch chosen by the truth of c only; no step of the other branch is ever
\* applied; at completion the condition is gone and the one item left on the
\* data stack is the chosen branch's value.
C6_Ternary ==
  (expr.op = "iif" /\ Known(expr.first))
  => LET chosen == IF IsTrue(Value(expr.first)) THEN 2 ELSE 3
         other == IF chosen = 2 THEN 3 ELSE 2
     IN  /\ Executed \cap StepsOf(<<other>>) = {}
         /\ \A i, j \in 1..Len(trace) :
              (trace[i] \in StepsOf(<<1>>) /\ trace[j] \in StepsOf(<<chosen>>))
              => i < j
         /\ status = "done" =>
              /\ Executed \cap StepsOf(<<1>>) # {}
              /\ Executed \cap StepsOf(<<chosen>>) # {}
              /\ Len(dataStack) = baseDepth + 1
              /\ Known(Child(expr, chosen)) =>
                   TopData = Value(Child(expr, chosen))

C6_Witness ==
  /\ expr.op = "iif"
  /\ expr.first = Leaf(BoolItem(FALSE))
  /\ expr.second.op = "value" /\ expr.third.op = "add"
  /\ status = "done"
  /\ dataStack = <<NilItem, IntItem(5)>>

\* C7: for every and-node (or-node) that is evaluated, the steps of its
\* second operand are applied exactly when the first operand is true
\* (false); the finished expression leaves one item whose truth value is the
\* and (or) of the operands' truth values, also for nested and/or nodes.
C7_Connectors ==
  status = "done" =>
    /\ \A n \in NodePaths :
         LET e == SubExpr(expr, n)
         IN  (e.op \in GatedOps /\ Known(e.first)
              /\ Executed \cap StepsOf(n \o <<1>>) # {})
             => ((Executed \cap StepsOf(n \o <<2>>) # {})
                 <=> (IsTrue(Value(e.first)) <=> (e.op = "and")))
    /\ (expr.op \in GatedOps /\ Known(expr))
       => /\ Len(dataStack) = baseDepth + 1
          /\ IsTrue(TopData) =
               (IF expr.op = "and"
                  THEN IsTrue(Value(expr.first)) /\ IsTrue(Value(expr.second))
                  ELSE IsTrue(Value(expr.first)) \/ IsTrue(Value(expr.second)))

C7_Witness ==
  /\ status = "done"
  /\ expr.op = "or" /\ expr.second.op = "and"
  /\ expr.first = Leaf(BoolItem(FALSE))
  /\ expr.second.first = Leaf(IntItem(3))
  /\ expr.second.second = Leaf(IntItem(2))
  /\ TopData = BoolItem(TRUE)
  /\ Len(trace) = Len(pcode)

\* ------------------------------------------------------------------------
\* ExprStarIndex: properties
\* ------------------------------------------------------------------------
EvalOrder == [i \in 1..Len(evalLog) |-> evalLog[i].sub]

BaseItems == [i \in 1..starBase |-> NilItem]

\* C3: whether the sub-expressions suspend or complete inline, the index is
\* evaluated once, then the indexed item once; a suspended step is re-entered
\* at the sequence id it saved; the frame is popped once; the final
\* computation uses the two items exactly as the evaluations left them.
C3_StarIndexResume ==
  /\ IsPrefix(EvalOrder, <<"second", "first">>)
  /\ starPops <= 1
  /\ starStatus = "running" =>
       /\ starPops = 0
       /\ ctxData = BaseItems \o produced
       /\ codeStack[2].step = "starindex"
       /\ codeStack[2].seqId = Len(evalLog)
       /\ Len(codeStack) = 3 =>
            /\ TopCode.step = evalLog[Len(evalLog)].sub
            /\ Len(produced) = Len(evalLog) - 1
  /\ starStatus # "running" =>
       /\ EvalOrder = <<"second", "first">>
       /\ starPops = 1
       /\ Len(codeStack) = 1
       /\ Len(produced) = 2
       /\ IF IsString(produced[2]) /\ IsOrdinal(produced[1])
            THEN /\ starStatus = "done"
                 /\ ctxData = BaseItems \o
                      <<IntItem(GetCharAt(produced[2].v, ForceInteger(produced[1])))>>
            ELSE /\ starStatus = "error"
                 /\ ctxData = BaseItems \o <<produced[1]>>

C3_Witness ==
  /\ starStatus = "done"
  /\ evalLog = <<[sub |-> "second", yielded |-> TRUE],
                 [sub |-> "first", yielded |-> TRUE]>>
  /\ produced = <<IntItem(1), StringItem(2)>>
  /\ ctxData = BaseItems \o <<IntItem(107)>>
  /\ starBase = 1

\* ------------------------------------------------------------------------
\* Native methods of ClassModule: parameter checks
\* ------------------------------------------------------------------------
\* an item holding a Mantra (its handler class derives from the mantra class)
MantraItem(id) == [t |-> "mantra", v |-> id]

\* the result of ctx->param(n) when the call has no n-th argument
NullParam == [t |-> "NULL", v |-> 0]

NoAttr == [t |-> "absent", v |-> 0]

AttrNames == {1, 2}

ArgItems == { StringItem(1), StringItem(2), IntItem(1), BoolItem(TRUE),
              MantraItem(1) }

ArgLists == UNION { [1..n -> ArgItems] : n \in 0..MaxArgs }

\* ctx->param(n)
Param(args, n) == IF n < Len(args) THEN args[n + 1] ELSE NullParam

\* m_signature of the three methods
Signature(f) ==
  CASE f = "getAttribute" -> "S"
    [] f = "setAttribute" -> "S,[X]"
    [] OTHER -> "Mantra,[B]"

\* items that carry a handler class
IsInstance(i) == i.t \in {"string", "mantra"}

\* Function::paramError
ParamError(f) ==
  [kind |-> "param_error", extra |-> Signature(f), derefNull |-> FALSE,
   invalidRead |-> FALSE, result |-> NoAttr, popped |-> 0]

AccessError(name) ==
  [kind |-> "access_error", extra |-> "attName", derefNull |-> FALSE,
   invalidRead |-> FALSE, result |-> StringItem(name), popped |-> 0]

\* ctx->returnFrame( item ): the frame of the call is closed and the pcount
\* arguments are removed from the data stack
ReturnFrame(item, pcount) ==
  [kind |-> "return", extra |-> "", derefNull |-> FALSE,
   invalidRead |-> FALSE, result |-> item, popped |-> pcount]

\* what a build can do after a null pointer was dereferenced or a field the
\* item does not carry was read
UndefinedKinds == {"crash", "param_error", "access_error", "return"}

Undefined(f, k, null, invalid) ==
  [kind |-> k, extra |-> IF k = "param_error" THEN Signature(f) ELSE "",
   derefNull |-> null, invalidRead |-> invalid, result |-> NoAttr,
   popped |-> 0]

NativeInit ==
  /\ attributes = [n \in AttrNames |-> NoAttr]
  /\ mantras = {}
  /\ nfunc = "none"
  /\ nargs = <<>>
  /\ outcome = ReturnFrame(NoAttr, 0)

\* ClassModule::GetAttributeMethod::invoke
Invoke_GetAttribute(args) ==
  /\ UNCHANGED notNativeVars
  /\ nfunc' = "getAttribute"
  /\ nargs' = args
  /\ LET i_name == Param(args, 0)
     IN  IF i_name = NullParam
           THEN \* i_name->isString() on a null pointer
                \E k \in UndefinedKinds :
                   outcome' = Undefined("getAttribute", k, TRUE, FALSE)
           ELSE IF ~IsString(i_name)
             THEN outcome' = ParamError("getAttribute")
             ELSE IF attributes[i_name.v] = NoAttr
               THEN outcome' = AccessError(i_name.v)
               ELSE outcome' = ReturnFrame(attributes[i_name.v], Len(args))
  /\ UNCHANGED <<attributes, mantras>>

\* ClassModule::SetAttributeMethod::invoke
Invoke_SetAttribute(args) ==
  /\ UNCHANGED notNativeVars
  /\ nfunc' = "setAttribute"
  /\ nargs' = args
  /\ LET i_name == Param(args, 0)
         i_value == Param(args, 1)
     IN  IF i_name = NullParam \/ ~IsString(i_name)
           THEN /\ outcome' = ParamError("setAttribute")
                /\ UNCHANGED attributes
           ELSE /\ attributes' =
                     [attributes EXCEPT ![i_name.v] =
                        IF i_value = NullParam THEN NoAttr ELSE i_value]
                /\ outcome' = ReturnFrame(NoAttr, Len(args))
  /\ UNCHANGED mantras

\* ClassModule::AddMethod::invoke
Invoke_Add(args) ==
  /\ UNCHANGED notNativeVars
  /\ nfunc' = "add"
  /\ nargs' = args
  /\ LET i_mantra == Param(args, 0)
         i_export == Param(args, 1)
     IN  IF i_mantra = NullParam
           THEN /\ outcome' = ParamError("add")
                /\ UNCHANGED mantras
           ELSE IF ~IsInstance(i_mantra)
             THEN \* i_mantra->asClass() on an item that carries no class
                  /\ \E k \in UndefinedKinds :
                        outcome' = Undefined("add", k, FALSE, TRUE)
                  /\ UNCHANGED mantras
             ELSE IF i_mantra.t # "mantra"
               THEN /\ outcome' = ParamError("add")
                    /\ UNCHANGED mantras
               ELSE IF i_export # NullParam /\ i_export.t # "bool"
                 THEN /\ outcome' = ParamError("add")
                      /\ UNCHANGED mantras
                 ELSE LET bExport == IF i_export = NullParam THEN TRUE
                                     ELSE i_export.v = 1
                      IN  /\ mantras' = mantras \cup {<<i_mantra.v, bExport>>}
                          /\ outcome' = ReturnFrame(NoAttr, Len(args))
  /\ UNCHANGED attributes

NativeNext ==
  \E args \in ArgLists :
    \/ Invoke_GetAttribute(args)
    \/ Invoke_SetAttribute(args)
    \/ Invoke_Add(args)

\* the number of parameters a call must supply
Required(f) == 1

\* the type the first parameter must have
FirstTypeOk(f, i) == IF f = "add" THEN i.t = "mantra" ELSE i.t = "string"

\* C8: a call with fewer arguments than required parameters, or with a
\* required argument of the wrong type, raises a ParamError carrying the
\* signature, reads through no missing parameter and removes nothing from
\* the data stack.
C8_ParamErrorOnBadArguments ==
  (nfunc # "none" /\
     (Len(nargs) < Required(nfunc) \/ ~FirstTypeOk(nfunc, nargs[1])))
  => /\ outcome.kind = "param_error"
     /\ outcome.extra = Signature(nfunc)
     /\ ~outcome.derefNull
     /\ ~outcome.invalidRead
     /\ outcome.popped = 0

\* ------------------------------------------------------------------------
\* Collector: GCToken, Engine::GC_store / GC_storeLocked / GC_lock /
\* GC_unlock and the collection cycle
\* ------------------------------------------------------------------------
HeapObjs == 1..NHeapObjs

GcInit ==
  /\ gcState = [o \in HeapObjs |-> "none"]
  /\ gcRef = [o \in HeapObjs |-> NULL]
  /\ gcStack = {}
  /\ gcGlobals = {}
  /\ gcLocks = [o \in HeapObjs |-> 0]
  /\ gcNew = {}
  /\ gcMarked = {}
  /\ gcPhase = "idle"
  /\ gcDisposed = [o \in HeapObjs |-> 0]
  /\ gcSwept = {}
  /\ gcPinned = {}

\* the objects a class' gcMark reaches from o, stopping at objects that
\* carry the mark of this cycle already
RECURSIVE MarkFrom(_, _)
MarkFrom(o, marked) ==
  IF o = NULL \/ o \in marked THEN marked
  ELSE MarkFrom(gcRef[o], marked \cup {o})

RECURSIVE MarkAll(_, _)
MarkAll(from, marked) ==
  IF from = {} THEN marked
  ELSE LET o == CHOOSE x \in from : TRUE
       IN  MarkAll(from \ {o}, MarkFrom(o, marked))

\* objects an Item of the running program can name
Reachable == MarkAll(gcStack \cup gcGlobals, {})

\* the objects with an outstanding GCLock
Locked_none == {}

Locked == {o \in HeapObjs : gcLocks[o] > 0}

\* objects kept by a root: stacks, global tables, outstanding locks
Rooted == MarkAll(gcStack \cup gcGlobals \cup Locked, {})

\* GCToken::dispose
GCToken_dispose_skip(n) == n

GCToken_dispose(n) == n + 1

\* Engine::GC_unlock: the handle is given back
GC_unlock_count(n) == n - 1

\* Engine::GC_store: a new token, its Item goes on the data stack
GC_store(o) ==
  /\ UNCHANGED notGcVars
  /\ gcPhase = "idle"
  /\ gcState[o] = "none"
  /\ gcState' = [gcState EXCEPT ![o] = "live"]
  /\ gcNew' = gcNew \cup {o}
  /\ gcStack' = gcStack \cup {o}
  /\ UNCHANGED <<gcRef, gcGlobals, gcLocks, gcMarked, gcPhase, gcDisposed,
                 gcSwept, gcPinned>>

\* Engine::GC_storeLocked: a new token that is locked, held by native code
GC_storeLocked(o) ==
  /\ UNCHANGED notGcVars
  /\ gcPhase = "idle"
  /\ gcState[o] = "none"
  /\ gcState' = [gcState EXCEPT ![o] = "live"]
  /\ gcNew' = gcNew \cup {o}
  /\ gcLocks' = [gcLocks EXCEPT ![o] = 1]
  /\ UNCHANGED <<gcRef, gcStack, gcGlobals, gcMarked, gcPhase, gcDisposed,
                 gcSwept, gcPinned>>

\* Engine::GC_lock( item )
GC_lock(o) ==
  /\ UNCHANGED notGcVars
  /\ gcPhase = "idle"
  /\ o \in Reachable
  /\ gcLocks[o] < MaxLocks
  /\ gcLocks' = [gcLocks EXCEPT ![o] = @ + 1]
  /\ UNCHANGED <<gcState, gcRef, gcStack, gcGlobals, gcNew, gcMarked,
                 gcPhase, gcDisposed, gcSwept, gcPinned>>

\* Engine::GC_unlock( lock )
GC_unlock(o) ==
  /\ UNCHANGED notGcVars
  /\ gcPhase = "idle"
  /\ gcLocks[o] > 0
  /\ gcLocks' = [gcLocks EXCEPT ![o] = GC_unlock_count(@)]
  /\ UNCHANGED <<gcState, gcRef, gcStack, gcGlobals, gcNew, gcMarked,
                 gcPhase, gcDisposed, gcSwept, gcPinned>>

\* the program: an Item leaves the stacks
Mut_pop(o) ==
  /\ UNCHANGED notGcVars
  /\ gcPhase = "idle"
  /\ o \in gcStack
  /\ gcStack' = gcStack \ {o}
  /\ UNCHANGED <<gcState, gcRef, gcGlobals, gcLocks, gcNew, gcMarked,
                 gcPhase, gcDisposed, gcSwept, gcPinned>>

\* the program: a global variable is set to, or cleared of, an object
Mut_global(o) ==
  /\ UNCHANGED notGcVars
  /\ gcPhase = "idle"
  /\ \/ o \in Reachable \ gcGlobals /\ gcGlobals' = gcGlobals \cup {o}
     \/ o \in gcGlobals /\ gcGlobals' = gcGlobals \ {o}
  /\ UNCHANGED <<gcState, gcRef, gcStack, gcLocks, gcNew, gcMarked,
                 gcPhase, gcDisposed, gcSwept, gcPinned>>

\* the program: a reachable object is made to reference another, or none
Mut_setRef(a, b) ==
  /\ UNCHANGED notGcVars
  /\ gcPhase = "idle"
  /\ a \in Reachable
  /\ b \in Reachable \cup {NULL}
  /\ gcRef[a] # b
  /\ gcRef' = [gcRef EXCEPT ![a] = b]
  /\ UNCHANGED <<gcState, gcStack, gcGlobals, gcLocks, gcNew, gcMarked,
                 gcPhase, gcDisposed, gcSwept, gcPinned>>

\* cycle (1): all mark bits are cleared
Collect_begin ==
  /\ UNCHANGED notGcVars
  /\ gcPhase = "idle"
  /\ gcMarked' = {}
  /\ gcPhase' = "roots"
  /\ UNCHANGED <<gcState, gcRef, gcStack, gcGlobals, gcLocks, gcNew,
                 gcDisposed, gcSwept, gcPinned>>

\* cycle (2): the stacks and the global tables are walked
Collect_markRoots ==
  /\ UNCHANGED notGcVars
  /\ gcPhase = "roots"
  /\ gcMarked' = MarkAll(gcStack \cup gcGlobals, gcMarked)
  /\ gcPhase' = "locks"
  /\ UNCHANGED <<gcState, gcRef, gcStack, gcGlobals, gcLocks, gcNew,
                 gcDisposed, gcSwept, gcPinned>>

\* cycle (3): the locked objects are walked
Collect_markLocked ==
  /\ UNCHANGED notGcVars
  /\ gcPhase = "locks"
  /\ gcMarked' = MarkAll(Locked, gcMarked)
  /\ gcPhase' = "sweep"
  /\ UNCHANGED <<gcState, gcRef, gcStack, gcGlobals, gcLocks, gcNew,
                 gcDisposed, gcSwept, gcPinned>>

\* the tokens the sweep disposes: unmarked, and no longer in the list of
\* the tokens allocated since the last cycle
Garbage ==
  {o \in HeapObjs : gcState[o] = "live" /\ o \notin gcMarked /\ o \notin gcNew}

\* cycle (4): sweep; the new tokens join the old generation
Collect_sweep ==
  /\ UNCHANGED notGcVars
  /\ gcPhase = "sweep"
  /\ gcState' = [o \in HeapObjs |->
                   IF o \in Garbage THEN "disposed" ELSE gcState[o]]
  /\ gcDisposed' = [o \in HeapObjs |->
                      IF o \in Garbage THEN GCToken_dispose(gcDisposed[o])
                      ELSE gcDisposed[o]]
  /\ gcSwept' = Garbage
  /\ gcPinned' = {o \in gcMarked \ gcNew : o \notin Reachable}
  /\ gcNew' = {}
  /\ gcPhase' = "idle"
  /\ UNCHANGED <<gcRef, gcStack, gcGlobals, gcLocks, gcMarked>>

GcNext ==
  \/ \E o \in HeapObjs :
       \/ GC_store(o)
       \/ GC_storeLocked(o)
       \/ GC_lock(o)
       \/ GC_unlock(o)
       \/ Mut_pop(o)
       \/ Mut_global(o)
  \/ \E a \in HeapObjs, b \in HeapObjs \cup {NULL} : Mut_setRef(a, b)
  \/ Collect_begin
  \/ Collect_markRoots
  \/ Collect_markLocked
  \/ Collect_sweep

\* a collector with no token
GcIdle == GcInit

\* ------------------------------------------------------------------------
\* Collector properties
\* ------------------------------------------------------------------------
\* a and b are live, reference each other and no root keeps either
UnrootedPair(a, b) ==
  /\ a # b
  /\ gcState[a] = "live" /\ gcState[b] = "live"
  /\ gcRef[a] = b /\ gcRef[b] = a
  /\ a \notin Rooted /\ b \notin Rooted

\* the sweep that ends a cycle disposes both a and b
SweepDisposesBoth(a, b) ==
  /\ gcDisposed'[a] = gcDisposed[a] + 1
  /\ gcDisposed'[b] = gcDisposed[b] + 1
  /\ {a, b} \subseteq gcSwept'

ErrorParam_catchable == TRUE

\* ErrorParam::hard(): m_catchable = false
ErrorParam_hard_catchable == TRUE

ErrorParam_hard == FALSE

\* kind is "func" (a function or block), "try" (a handler frame with its try
\* body) or "catch" (the catch branch of a handler that received an error)
TcFrame(kind, left, catchLen) ==
  [kind |-> kind, left |-> left, catchLen |-> catchLen]

TcInit ==
  /\ \E n \in 1..MaxBody : tcStack = <<TcFrame("func", n, 0)>>
  /\ tcStatus = "running"
  /\ tcSurfaced = "none"
  /\ tcLast = "none"

\* the innermost handler frame of the stack, 0 when there is none
RECURSIVE NearestHandler(_, _)
NearestHandler(stack, i) ==
  IF i = 0 THEN 0
  ELSE IF stack[i].kind = "try" THEN i
  ELSE NearestHandler(stack, i - 1)

\* the top frame has a step left to run
TcCanStep ==
  /\ tcStatus = "running"
  /\ tcStack # <<>>
  /\ tcStack[Len(tcStack)].left > 0

\* the stack after the top frame consumed its current step
TcAdvanced ==
  [tcStack EXCEPT ![Len(tcStack)].left = @ - 1]

\* a step that raises nothing
Tc_plain ==
  /\ UNCHANGED notTcVars
  /\ TcCanStep
  /\ tcStack' = TcAdvanced
  /\ tcLast' = "plain"
  /\ UNCHANGED <<tcStatus, tcSurfaced>>

\* a try statement: a handler frame is pushed with its body
Tc_try(n, c) ==
  /\ UNCHANGED notTcVars
  /\ TcCanStep
  /\ Len(tcStack) < MaxDepth
  /\ tcStack' = Append(TcAdvanced, TcFrame("try", n, c))
  /\ tcLast' = "try"
  /\ UNCHANGED <<tcStatus, tcSurfaced>>

\* a call: a function frame is pushed
Tc_call(n) ==
  /\ UNCHANGED notTcVars
  /\ TcCanStep
  /\ Len(tcStack) < MaxDepth
  /\ tcStack' = Append(TcAdvanced, TcFrame("func", n, 0))
  /\ tcLast' = "call"
  /\ UNCHANGED <<tcStatus, tcSurfaced>>

\* a step raises an error; hard tells whether ErrorParam::hard() was called
Tc_raise(hard) ==
  /\ UNCHANGED notTcVars
  /\ TcCanStep
  /\ tcLast' = IF hard THEN "raise_hard" ELSE "raise_soft"
  /\ LET catchable == IF hard THEN ErrorParam_hard ELSE ErrorParam_catchable
         h == NearestHandler(tcStack, Len(tcStack))
     IN  IF catchable /\ h > 0
           THEN \* the frames above the handler are dropped, the handler
                \* runs its catch branch
                /\ tcStack' =
                     Append(SubSeq(tcStack, 1, h - 1),
                            TcFrame("catch", tcStack[h].catchLen, 0))
                /\ UNCHANGED <<tcStatus, tcSurfaced>>
           ELSE /\ tcStack' = <<>>
                /\ tcStatus' = "terminated"
                /\ tcSurfaced' = IF hard THEN "hard" ELSE "soft"

\* the top frame has run all its steps and is popped
Tc_complete ==
  /\ UNCHANGED notTcVars
  /\ tcStatus = "running"
  /\ tcStack # <<>>
  /\ tcStack[Len(tcStack)].left = 0
  /\ tcStack' = SubSeq(tcStack, 1, Len(tcStack) - 1)
  /\ tcStatus' = IF Len(tcStack) = 1 THEN "done" ELSE "running"
  /\ tcLast' = "complete"
  /\ UNCHANGED tcSurfaced

TcNext ==
  \/ Tc_plain
  \/ \E n \in 1..MaxBody, c \in 0..MaxBody : Tc_try(n, c)
  \/ \E n \in 1..MaxBody : Tc_call(n)
  \/ \E hard \in BOOLEAN : Tc_raise(hard)
  \/ Tc_complete

\* a context that ran to its end
TcIdle ==
  /\ tcStack = <<>>
  /\ tcStatus = "done"
  /\ tcSurfaced = "none"
  /\ tcLast = "none"

\* h is the innermost handler frame of the code stack
IsNearestHandler(h) ==
  /\ h \in 1..Len(tcStack)
  /\ tcStack[h].kind = "try"
  /\ \A j \in (h + 1)..Len(tcStack) : tcStack[j].kind # "try"

\* the context ended and the error went to its invoker
TerminatesWith(what) ==
  /\ tcStack' = <<>>
  /\ tcStatus' = "terminated"
  /\ tcSurfaced' = what

\* the frames up to h are untouched, h runs its catch branch, the try body
\* and everything above it are gone
DeliveredTo(h) ==
  /\ Len(tcStack') = h
  /\ \A j \in 1..(h - 1) : tcStack'[j] = tcStack[j]
  /\ tcStack'[h].kind = "catch"
  /\ tcStack'[h].left = tcStack[h].catchLen
  /\ tcStatus' = "running"
  /\ tcSurfaced' = tcSurfaced

\* C13: a catchable error raised inside a try body goes to the nearest
\* enclosing handler and the rest of the try body is dropped; an error with
\* no enclosing handler, or a non-catchable one, terminates the context and
\* is surfaced; the raising frame never just moves on to its next step.
C13_ErrorPropagation ==
  [][/\ tcLast' = "raise_soft" =>
          /\ \A h \in 1..Len(tcStack) : IsNearestHandler(h) => DeliveredTo(h)
          /\ (\A h \in 1..Len(tcStack) : tcStack[h].kind # "try")
               => TerminatesWith("soft")
     /\ tcLast' = "raise_hard" => TerminatesWith("hard")
     /\ tcLast' \in {"raise_soft", "raise_hard"} => tcStack' # TcAdvanced
    ]_vars

\* a catchable error was delivered to a handler nested in another frame,
\* and the handler has a catch branch to run
C13_Witness ==
  /\ tcLast = "raise_soft"
  /\ tcStatus = "running"
  /\ Len(tcStack) = 2
  /\ tcStack[2].kind = "catch"
  /\ tcStack[2].left > 0

\* ------------------------------------------------------------------------
\* ExprNeg, ExprPreInc, ExprPostInc, ExprPreDec, ExprPostDec
\* ------------------------------------------------------------------------
FuncItem == [t |-> "func", v |-> 0]
MethodItem == [t |-> "method", v |-> 0]
\* FLC_ITEM_DEEP and FLC_ITEM_USER: an instance with its Class
DeepItem(id) == [t |-> "deep", v |-> id]
UserItem(id) == [t |-> "user", v |-> id]

UnaryOperators == {"neg", "preinc", "postinc", "predec", "postdec"}

OperandItems ==
  { NilItem, BoolItem(TRUE), IntItem(0), IntItem(5), NumItem(2), FuncItem,
    MethodItem, StringItem(1), DeepItem(1), UserItem(1) }

NoError == [class |-> "none", code |-> "none", extra |-> ""]

\* new OperandError( ErrorParam(e_invalid_op, __LINE__ ).extra( extra ) )
OperandError(extra) ==
  [class |-> "OperandError", code |-> "e_invalid_op", extra |-> extra]

\* the steps precompile emits: UnaryExpression::precompile for the prefix
\* forms, ExprPostInc::precompile / ExprPostDec::precompile with their gate
UnaryPCode(op) ==
  IF op \in {"postinc", "postdec"}
    THEN <<"first", op, "gate">>
    ELSE <<"first", op>>

UInit ==
  /\ uOp \in UnaryOperators
  /\ uVar \in OperandItems
  /\ uData \in {<<>>, <<IntItem(7)>>}
  /\ uSeqId = 0
  /\ uStatus = "running"
  /\ uErr = NoError
  /\ uCalls = <<>>

\* the step the frame is at
UAt(kind) ==
  /\ uStatus = "running"
  /\ uSeqId < Len(UnaryPCode(uOp))
  /\ UnaryPCode(uOp)[uSeqId + 1] = kind

UTop == uData[Len(uData)]

\* the extra text and the handlers of each step
ExprNeg_extra == "neg"
ExprPreInc_extra == "preinc"
ExprPostInc_Gate_extra == "postinc"
ExprPreDec_extra_preinc == "preinc"

ExprPreDec_extra == "predec"
ExprPostDec_Gate_extra == "postdec"

ExprPreInc_handler == "op_inc"
ExprPreDec_handler == "op_dec"
ExprPostInc_Gate_handler_dec == "op_decpost"

ExprPostInc_Gate_handler == "op_incpost"
ExprPostDec_Gate_handler == "op_decpost"

\* the switch on the type of the top item shared by the steps: newValue is
\* the new value of an integer or float, handler is the Class operator called
\* for an instance, extra is the text of the error thrown otherwise
UnarySwitch(newValue, handler, extra) ==
  LET item == UTop
  IN  CASE item.t \in {"int", "num"} ->
             /\ uData' = [uData EXCEPT ![Len(uData)].v = newValue]
             /\ uSeqId' = uSeqId + 1
             /\ UNCHANGED <<uStatus, uErr, uCalls>>
        [] item.t \in {"deep", "user"} ->
             /\ uCalls' = Append(uCalls, [handler |-> handler, inst |-> item])
             /\ uSeqId' = uSeqId + 1
             /\ UNCHANGED <<uData, uStatus, uErr>>
        [] OTHER ->
             /\ uErr' = OperandError(extra)
             /\ uStatus' = "error"
             /\ UNCHANGED <<uData, uSeqId, uCalls>>

Negated(v) == 0 - v
Incremented(v) == v + 1
Decremented(v) == v - 1

\* the operand expression pushes its value
U_first ==
  /\ UNCHANGED notUVars
  /\ UAt("first")
  /\ uData' = Append(uData, uVar)
  /\ uSeqId' = uSeqId + 1
  /\ UNCHANGED <<uOp, uVar, uStatus, uErr, uCalls>>

\* ExprNeg::apply_
ExprNeg_apply ==
  /\ UNCHANGED notUVars
  /\ UAt("neg")
  /\ UnarySwitch(Negated(UTop.v), "op_neg", ExprNeg_extra)
  /\ UNCHANGED <<uOp, uVar>>

\* ExprPreInc::apply_
ExprPreInc_apply ==
  /\ UNCHANGED notUVars
  /\ UAt("preinc")
  /\ UnarySwitch(Incremented(UTop.v), ExprPreInc_handler, ExprPreInc_extra)
  /\ UNCHANGED <<uOp, uVar>>

\* ExprPreDec::apply_
ExprPreDec_apply ==
  /\ UNCHANGED notUVars
  /\ UAt("predec")
  /\ UnarySwitch(Decremented(UTop.v), ExprPreDec_handler, ExprPreDec_extra)
  /\ UNCHANGED <<uOp, uVar>>

\* ExprPostInc::apply_: reads the top item and does nothing with it
ExprPostInc_apply ==
  /\ UNCHANGED notUVars
  /\ UAt("postinc")
  /\ uSeqId' = uSeqId + 1
  /\ UNCHANGED <<uOp, uVar, uData, uStatus, uErr, uCalls>>

\* ExprPostDec::apply_: reads the top item and does nothing with it
ExprPostDec_apply ==
  /\ UNCHANGED notUVars
  /\ UAt("postdec")
  /\ uSeqId' = uSeqId + 1
  /\ UNCHANGED <<uOp, uVar, uData, uStatus, uErr, uCalls>>

\* ExprPostInc::Gate::apply_
ExprPostInc_Gate_apply ==
  /\ UNCHANGED notUVars
  /\ UAt("gate")
  /\ uOp = "postinc"
  /\ UnarySwitch(Incremented(UTop.v), ExprPostInc_Gate_handler, ExprPostInc_Gate_extra)
  /\ UNCHANGED <<uOp, uVar>>

\* ExprPostDec::Gate::apply_
ExprPostDec_Gate_apply ==
  /\ UNCHANGED notUVars
  /\ UAt("gate")
  /\ uOp = "postdec"
  /\ UnarySwitch(Decremented(UTop.v), ExprPostDec_Gate_handler, ExprPostDec_Gate_extra)
  /\ UNCHANGED <<uOp, uVar>>

\* no step is left: the frame is popped
U_complete ==
  /\ UNCHANGED notUVars
  /\ uStatus = "running"
  /\ uSeqId = Len(UnaryPCode(uOp))
  /\ uStatus' = "done"
  /\ UNCHANGED <<uOp, uVar, uData, uSeqId, uErr, uCalls>>

UNext ==
  \/ U_first
  \/ ExprNeg_apply
  \/ ExprPreInc_apply
  \/ ExprPreDec_apply
  \/ ExprPostInc_apply
  \/ ExprPostDec_apply
  \/ ExprPostInc_Gate_apply
  \/ ExprPostDec_Gate_apply
  \/ U_complete

\* a context with nothing to evaluate
UIdle ==
  /\ uOp = "neg"
  /\ uVar = NilItem
  /\ uData = <<>>
  /\ uSeqId = 0
  /\ uStatus = "done"
  /\ uErr = NoError
  /\ uCalls = <<>>

\* ------------------------------------------------------------------------
\* Unary operator properties
\* ------------------------------------------------------------------------
\* the operator step (the gate, for a postfix form) has been applied
UActed == uStatus \in {"done", "error"}

IsInstanceOperand == uVar.t \in {"deep", "user"}

\* C14: an operand that is neither integer, float nor instance makes the
\* operator raise an OperandError with the invalid-operand code and the
\* operator's name as extra text, and the operand on top of the data stack
\* stays as it was pushed; other operands raise nothing.
C14_InvalidOperand ==
  /\ uStatus = "running" => uErr = NoError
  /\ UActed =>
       /\ (uVar.t \notin {"int", "num", "deep", "user"}) <=> (uStatus = "error")
       /\ uStatus = "error" =>
            /\ uErr = [class |-> "OperandError", code |-> "e_invalid_op",
                       extra |-> uOp]
            /\ uData # <<>>
            /\ UTop = uVar
            /\ uCalls = <<>>

C14_Witness ==
  /\ uStatus = "error"
  /\ uOp = "predec"
  /\ uVar = NilItem
  /\ UTop = NilItem

\* C19: on an integer operand a postfix form leaves the value the operand
\* had before on the data stack, a prefix form the value after the change.
C19_PostfixYieldsOldValue ==
  (uStatus = "done" /\ uVar.t = "int") =>
     /\ uOp \in {"postinc", "postdec"} => UTop = uVar
     /\ uOp = "preinc" => UTop = IntItem(uVar.v + 1)
     /\ uOp = "predec" => UTop = IntItem(uVar.v - 1)

\* the Class operator each form calls on an instance
HandlerOf(op) ==
  CASE op = "preinc" -> "op_inc"
    [] op = "predec" -> "op_dec"
    [] op = "postinc" -> "op_incpost"
    [] op = "postdec" -> "op_decpost"

\* the Class operator named by the statement: op_inc for an increment,
\* op_dec for a decrement
HandlerAsStated(op) ==
  IF op \in {"preinc", "postinc"} THEN "op_inc" ELSE "op_dec"

\* C20 (as amended): on an instance operand increment and decrement do no
\* arithmetic of their own and raise nothing; the prefix forms call the
\* Class operators op_inc / op_dec with the instance, the postfix forms call
\* op_incpost / op_decpost.
C20_InstanceHandlers ==
  (UActed /\ IsInstanceOperand /\ uOp # "neg") =>
     /\ uStatus = "done"
     /\ UTop = uVar
     /\ uCalls = <<[handler |-> HandlerOf(uOp), inst |-> uVar]>>

\* C20 as stated: every form calls op_inc or op_dec
C20_InstanceHandlers_AsStated ==
  (UActed /\ IsInstanceOperand /\ uOp # "neg") =>
     /\ uStatus = "done"
     /\ UTop = uVar
     /\ uCalls = <<[handler |-> HandlerAsStated(uOp), inst |-> uVar]>>

C20_Witness ==
  /\ uStatus = "done"
  /\ uOp = "postinc"
  /\ uVar = UserItem(1)
  /\ Len(uCalls) = 1

\* ------------------------------------------------------------------------
\* Comparisons: generic_apply_ (ExprLT .. ExprNE) and ExprEEQ::apply_
\* ------------------------------------------------------------------------
CompareOperators == {"lt", "le", "gt", "ge", "eq", "ne", "eeq"}

CompareItems ==
  { NilItem, BoolItem(FALSE), BoolItem(TRUE), IntItem(1), IntItem(2),
    NumItem(1), NumItem(2), FuncItem, DeepItem(1), DeepItem(2), UserItem(1),
    UserItem(2) }

\* the numeric value of the type tag, as Item::compare orders the types
TypeId(i) ==
  CASE i.t = "nil" -> 0
    [] i.t = "bool" -> 1
    [] i.t = "int" -> 2
    [] i.t = "num" -> 3
    [] i.t = "func" -> 4
    [] i.t = "deep" -> 5
    [] OTHER -> 6

Sign(n) == IF n < 0 THEN 0 - 1 ELSE IF n > 0 THEN 1 ELSE 0

\* Item::compare
ItemCompare(a, b) ==
  IF a.t = b.t \/ {a.t, b.t} = {"int", "num"}
    THEN Sign(a.v - b.v)
    ELSE Sign(TypeId(a) - TypeId(b))

\* comparer::pass( a, b ) of each operator
ComparerPass(op, a, b) ==
  CASE op = "lt" -> a < b
    [] op = "le" -> a <= b
    [] op = "gt" -> a > b
    [] op = "ge" -> a >= b
    [] op = "eq" -> a = b
    [] OTHER -> a # b

\* comparer::cmpCheck( v ): the relation of v with zero
ComparerCmpCheck(op, v) == ComparerPass(op, v, 0)

\* op_compare was not called
NoHandler == [called |-> FALSE, r |-> 0]

\* simplify() was not called; after a call, ok is what it returned, set
\* tells whether it stored a boolean in value, val is that boolean (1, 0)
NotSimplified == [called |-> FALSE, ok |-> FALSE, set |-> FALSE, val |-> 0]

Simplified(b) ==
  [called |-> TRUE, ok |-> TRUE, set |-> TRUE, val |-> IF b THEN 1 ELSE 0]

CInit ==
  /\ cOp \in CompareOperators
  /\ cOp1 \in CompareItems
  /\ cOp2 \in CompareItems
  /\ cBase \in 0..1
  /\ cData = [i \in 1..cBase |-> IntItem(7)] \o <<cOp1, cOp2>>
  /\ cStatus = "ready"
  /\ cHandler = NoHandler
  /\ cSimp = NotSimplified

\* op1 is set to a boolean and the second operand is popped
SetResultAndPop_keep(b) ==
  /\ cData' = [cData EXCEPT ![Len(cData) - 1] = BoolItem(b)]
  /\ UNCHANGED cHandler

SetResultAndPop(b) ==
  /\ cData' = Append(SubSeq(cData, 1, Len(cData) - 2), BoolItem(b))
  /\ UNCHANGED cHandler

\* Class::op_compare: the handler takes the two operands and leaves an
\* integer in their place, which the step turns into a boolean
SetResultOfHandler(r, b) ==
  /\ cData' = Append(SubSeq(cData, 1, Len(cData) - 2), BoolItem(b))
  /\ cHandler' = [called |-> TRUE, r |-> r]

\* what a DEEP first operand hands to cmpCheck
DeepChecked(r) == r

\* what a USER first operand hands to cmpCheck: the value of asInteger() < 0
UserChecked(r) == IF r < 0 THEN 1 ELSE 0

\* generic_apply_< comparer >
Generic_apply(op) ==
  /\ UNCHANGED notCVars
  /\ cStatus = "ready"
  /\ cOp = op
  /\ LET op1 == cData[Len(cData) - 1]
         op2 == cData[Len(cData)]
     IN  CASE op1.t \in {"int", "num"} /\ op2.t \in {"int", "num"} ->
                SetResultAndPop(ComparerPass(op, op1.v, op2.v))
           [] op1.t = "deep" ->
                \E r \in {0 - 1, 0, 1} :
                   SetResultOfHandler(r, ComparerCmpCheck(op, DeepChecked(r)))
           [] op1.t = "user" ->
                \E r \in {0 - 1, 0, 1} :
                   SetResultOfHandler(r, ComparerCmpCheck(op, UserChecked(r)))
           [] OTHER ->
                SetResultAndPop(ComparerCmpCheck(op, ItemCompare(op1, op2)))
  /\ cStatus' = "done"
  /\ UNCHANGED <<cOp, cOp1, cOp2, cBase, cSimp>>

\* generic_simplify< comparer > on two constant operands: both operands
\* simplify to their value; the result is computed at compile time, before
\* the step is applied
Generic_simplify(op) ==
  /\ UNCHANGED notCVars
  /\ cStatus = "ready"
  /\ ~cSimp.called
  /\ cOp = op
  /\ LET d1 == cOp1
         d2 == cOp2
     IN  cSimp' = IF d1.t \in {"int", "num"} /\ d2.t \in {"int", "num"}
                    THEN Simplified(ComparerPass(op, d1.v, d2.v))
                    ELSE Simplified(ComparerPass(op, TypeId(d1), TypeId(d2)))
  /\ UNCHANGED <<cOp, cOp1, cOp2, cData, cBase, cStatus, cHandler>>

\* ExprEEQ::simplify on two constant operands: the function returns
\* d1.compare(d2) == 0 and stores nothing in value
ExprEEQ_simplify ==
  /\ UNCHANGED notCVars
  /\ cStatus = "ready"
  /\ ~cSimp.called
  /\ cOp = "eeq"
  /\ cSimp' = [called |-> TRUE, ok |-> ItemCompare(cOp1, cOp2) = 0,
               set |-> FALSE, val |-> 0]
  /\ UNCHANGED <<cOp, cOp1, cOp2, cData, cBase, cStatus, cHandler>>

\* the default branch of ExprEEQ::apply_
ExprEEQ_default_true == TRUE

ExprEEQ_default == FALSE

\* ExprEEQ::apply_
ExprEEQ_apply ==
  /\ UNCHANGED notCVars
  /\ cStatus = "ready"
  /\ cOp = "eeq"
  /\ LET op1 == cData[Len(cData) - 1]
         op2 == cData[Len(cData)]
     IN  IF op1.t = op2.t /\ op1.t \in {"nil", "bool", "int", "num", "deep", "user"}
           THEN SetResultAndPop(op1.v = op2.v)
           ELSE SetResultAndPop(ExprEEQ_default)
  /\ cStatus' = "done"
  /\ UNCHANGED <<cOp, cOp1, cOp2, cBase, cSimp>>

\* ExprLT, ExprLE, ExprGT, ExprGE, ExprEQ and ExprNE apply generic_apply_
\* with their comparer
CNext ==
  \/ \E op \in CompareOperators \ {"eeq"} : Generic_simplify(op)
  \/ ExprEEQ_simplify
  \/ \E op \in CompareOperators \ {"eeq"} : Generic_apply(op)
  \/ ExprEEQ_apply

\* a context with no comparison to apply
CIdle ==
  /\ cOp = "eq"
  /\ cOp1 = NilItem
  /\ cOp2 = NilItem
  /\ cData = <<>>
  /\ cBase = 0
  /\ cStatus = "done"
  /\ cHandler = NoHandler
  /\ cSimp = NotSimplified

\* ------------------------------------------------------------------------
\* Comparison properties
\* ------------------------------------------------------------------------
ScalarTypes == {"nil", "bool", "int", "num"}

\* two scalars of different type that are not an integer/float pair
MismatchedScalars ==
  /\ cOp1.t \in ScalarTypes
  /\ cOp2.t \in ScalarTypes
  /\ cOp1.t # cOp2.t
  /\ {cOp1.t, cOp2.t} # {"int", "num"}

\* C15: == and === of two mismatched scalars leave boolean false, != leaves
\* boolean true, and no comparison step raises an error.
C15_MismatchedEquality ==
  /\ cStatus # "error"
  /\ (cStatus = "done" /\ MismatchedScalars) =>
        /\ Len(cData) = cBase + 1
        /\ cOp \in {"eq", "eeq"} => cData[Len(cData)] = BoolItem(FALSE)
        /\ cOp = "ne" => cData[Len(cData)] = BoolItem(TRUE)

C15_Witness ==
  /\ cStatus = "done"
  /\ cOp = "eeq"
  /\ cOp1 = NilItem
  /\ cOp2 = IntItem(1)
  /\ cData[Len(cData)] = BoolItem(FALSE)

C29_SimplifyMatchesApply ==
  (/\ cStatus = "done"
   /\ cSimp.called
   /\ cOp1.t \in ScalarTypes
   /\ cOp2.t \in ScalarTypes) =>
     /\ cSimp.ok
     /\ cSimp.set
     /\ cData[Len(cData)] = [t |-> "bool", v |-> cSimp.val]

\* the same for the six generic operators on integers and floats
C29_NumericSimplifyMatchesApply ==
  (/\ cStatus = "done"
   /\ cSimp.called
   /\ cOp # "eeq"
   /\ cOp1.t \in {"int", "num"}
   /\ cOp2.t \in {"int", "num"}) =>
     /\ cSimp.ok
     /\ cSimp.set
     /\ cData[Len(cData)] = [t |-> "bool", v |-> cSimp.val]

\* C30: when the first operand is an instance, the boolean left by <, <=, >,
\* >=, == and != is the operator's relation between the integer returned by
\* the class's op_compare and zero, for a deep instance and for a user
\* instance alike.
C30_InstanceCompare ==
  (cStatus = "done" /\ cOp # "eeq" /\ cOp1.t \in {"deep", "user"}) =>
     /\ cHandler.called
     /\ cData[Len(cData)] = BoolItem(ComparerPass(cOp, cHandler.r, 0))

\* the same for a deep instance alone
C30_DeepInstanceCompare ==
  (cStatus = "done" /\ cOp # "eeq" /\ cOp1.t = "deep") =>
     /\ cHandler.called
     /\ cData[Len(cData)] = BoolItem(ComparerPass(cOp, cHandler.r, 0))

\* ------------------------------------------------------------------------
\* ExprClosure
\* ------------------------------------------------------------------------
ClosedVars == 1..MaxClosed

ClValues == {10, 20}

FunctionItem == [t |-> "func", v |-> 1]

\* an item holding the id-th Closure created
ClosureItem(id) == [t |-> "closure", v |-> id]

\* no call of the closure read anything yet
NoRead == [var |-> 0, val |-> 0]

ClInit ==
  /\ clClosed \in 0..MaxClosed
  /\ clLocals \in [ClosedVars -> ClValues]
  /\ clCode \in {<<"ExprClosure">>, <<"caller", "ExprClosure">>}
  /\ clData \in {<<>>, <<IntItem(7)>>}
  /\ clPops = 0
  /\ clClosures = <<>>
  /\ clTokens = {}
  /\ clAtApply = <<>>
  /\ clRead = NoRead

\* the function has closed variables
HasClosed_always(n) == TRUE

HasClosed(n) == n > 0

\* Closure::close( ctx ): the values of the closed variables are taken from
\* the context
Closure_close(func, closed) ==
  [func |-> func, captured |-> [v \in 1..closed |-> clLocals[v]]]

\* ExprClosure::apply_
ExprClosure_apply ==
  /\ UNCHANGED notClVars
  /\ clCode # <<>>
  /\ clCode[Len(clCode)] = "ExprClosure"
  /\ clCode' = SubSeq(clCode, 1, Len(clCode) - 1)
  /\ clPops' = clPops + 1
  /\ clAtApply' = clLocals
  /\ IF HasClosed(clClosed)
       THEN /\ clClosures' = Append(clClosures, Closure_close(FunctionItem, clClosed))
            /\ clTokens' = clTokens \cup {Len(clClosures) + 1}
            /\ clData' = Append(clData, ClosureItem(Len(clClosures) + 1))
       ELSE /\ clData' = Append(clData, FunctionItem)
            /\ UNCHANGED <<clClosures, clTokens>>
  /\ UNCHANGED <<clClosed, clLocals, clRead>>

\* the program assigns one of the variables
Cl_assign(v, val) ==
  /\ UNCHANGED notClVars
  /\ clLocals[v] # val
  /\ clLocals' = [clLocals EXCEPT ![v] = val]
  /\ UNCHANGED <<clClosed, clCode, clData, clPops, clClosures, clTokens,
                 clAtApply, clRead>>

\* a call of the closure on top of the data stack reads closed variable v
Cl_call(v) ==
  /\ UNCHANGED notClVars
  /\ clPops > 0
  /\ clData[Len(clData)].t = "closure"
  /\ v \in DOMAIN clClosures[clData[Len(clData)].v].captured
  /\ clRead' = [var |-> v, val |-> clClosures[clData[Len(clData)].v].captured[v]]
  /\ clRead' # clRead
  /\ UNCHANGED <<clClosed, clLocals, clCode, clData, clPops, clClosures,
                 clTokens, clAtApply>>

ClNext ==
  \/ ExprClosure_apply
  \/ \E v \in ClosedVars, val \in ClValues : Cl_assign(v, val)
  \/ \E v \in ClosedVars : Cl_call(v)

\* a context with no closure step
ClIdle ==
  /\ clClosed = 0
  /\ clLocals = [v \in ClosedVars |-> 10]
  /\ clCode = <<>>
  /\ clData = <<>>
  /\ clPops = 0
  /\ clClosures = <<>>
  /\ clTokens = {}
  /\ clAtApply = <<>>
  /\ clRead = NoRead

\* C16: the step pops its frame once and pushes one item; with closed
\* variables the item is a new Closure known to the collector whose captured
\* values are those of the moment the step ran, and calls read those values
\* whatever was assigned since; without closed variables the item is the
\* function and no Closure exists.
C16_ClosureCreation ==
  /\ clPops <= 1
  /\ clPops = 0 => (clClosures = <<>> /\ clRead = NoRead)
  /\ clPops = 1 =>
       /\ "ExprClosure" \notin {clCode[i] : i \in 1..Len(clCode)}
       /\ clData # <<>>
       /\ SubSeq(clData, 1, Len(clData) - 1) \in {<<>>, <<IntItem(7)>>}
       /\ IF clClosed > 0
            THEN /\ Len(clClosures) = 1
                 /\ clData[Len(clData)] = ClosureItem(1)
                 /\ 1 \in clTokens
                 /\ clClosures[1].func = FunctionItem
                 /\ DOMAIN clClosures[1].captured = 1..clClosed
                 /\ \A v \in 1..clClosed :
                      clClosures[1].captured[v] = clAtApply[v]
                 /\ clRead # NoRead => clRead.val = clAtApply[clRead.var]
            ELSE /\ clData[Len(clData)] = FunctionItem
                 /\ clClosures = <<>>
                 /\ clTokens = {}

\* a call read the captured value of a variable that was assigned a
\* different value after the closure was created
C16_Witness ==
  /\ clPops = 1
  /\ clClosed > 0
  /\ clRead # NoRead
  /\ clLocals[clRead.var] # clRead.val

\* ------------------------------------------------------------------------
\* StmtGlobal
\* ------------------------------------------------------------------------
GNames == 1..NNames

AssignedValues == {30, 40}

NoCodeError == [class |-> "none", code |-> "none", symbol |-> "", extra |-> 0]

\* after tells whether the reference was made after the statement executed
NoRef == [op |-> "none", var |-> 0, val |-> 0, after |-> FALSE]

GInit ==
  /\ gSymbols = <<>>
  /\ gDefined \in SUBSET GNames
  /\ gGlobalVal = [n \in GNames |-> 20]
  /\ gLocalVal = [n \in GNames |-> 10]
  /\ gBinding = [n \in GNames |-> "local"]
  /\ gPhase = "build"
  /\ gPops = 0
  /\ gErr = NoCodeError
  /\ gLast = NoRef

\* StmtGlobal::alreadyAdded
AlreadyAdded(name) == \E i \in 1..Len(gSymbols) : gSymbols[i] = name

\* StmtGlobal::addSymbol: returns false and adds nothing for a listed name
StmtGlobal_addSymbol(name) ==
  /\ UNCHANGED notGVars
  /\ gPhase = "build"
  /\ ~AlreadyAdded(name)
  /\ gSymbols' = Append(gSymbols, name)
  /\ UNCHANGED <<gDefined, gGlobalVal, gLocalVal, gBinding, gPhase, gPops,
                 gErr, gLast>>

\* the statement is complete and its frame is on the code stack
StmtGlobal_pushed ==
  /\ UNCHANGED notGVars
  /\ gPhase = "build"
  /\ gSymbols # <<>>
  /\ gPhase' = "ready"
  /\ UNCHANGED <<gSymbols, gDefined, gGlobalVal, gLocalVal, gBinding, gPops,
                 gErr, gLast>>

\* the second argument of ctx->resolveVariable( sym->name(), true, false )
ForceGlobal_local == FALSE

ForceGlobal == TRUE

\* ctx->resolveVariable: the slot the name stands for, "null" if the module
\* has no such global
ResolveVariable(name, bGlobal) ==
  IF bGlobal
    THEN IF name \in gDefined THEN "global" ELSE "null"
    ELSE "local"

\* the index of the first listed symbol that does not resolve, or
\* Len(gSymbols) + 1
RECURSIVE FirstUnresolved(_)
FirstUnresolved(i) ==
  IF i > Len(gSymbols) THEN i
  ELSE IF ResolveVariable(gSymbols[i], ForceGlobal) = "null" THEN i
  ELSE FirstUnresolved(i + 1)

\* the error raised for the listed symbol at position k: the current
\* function's name as the symbol, the name of the listed symbol as the extra
UndefinedSymbolError_first(k) ==
  [class |-> "CodeError", code |-> "e_undef_sym", symbol |-> "current",
   extra |-> gSymbols[1]]

UndefinedSymbolError(k) ==
  [class |-> "CodeError", code |-> "e_undef_sym", symbol |-> "current",
   extra |-> gSymbols[k]]

\* StmtGlobal::apply_
StmtGlobal_apply ==
  /\ UNCHANGED notGVars
  /\ gPhase = "ready"
  /\ gPops' = gPops + 1
  /\ LET k == FirstUnresolved(1)
     IN  /\ gBinding' =
               [n \in GNames |->
                  IF \E i \in 1..(k - 1) : gSymbols[i] = n
                    THEN ResolveVariable(n, ForceGlobal)
                    ELSE gBinding[n]]
         /\ IF k <= Len(gSymbols)
              THEN /\ gErr' = UndefinedSymbolError(k)
                   /\ gPhase' = "error"
              ELSE /\ gPhase' = "done"
                   /\ UNCHANGED gErr
  /\ UNCHANGED <<gSymbols, gDefined, gGlobalVal, gLocalVal, gLast>>

\* the frame assigns val to name: the slot bound to the name is written
Frame_assign(name, val) ==
  /\ UNCHANGED notGVars
  /\ gPhase \in {"ready", "done"}
  /\ IF gBinding[name] = "global"
       THEN /\ gGlobalVal' = [gGlobalVal EXCEPT ![name] = val]
            /\ UNCHANGED gLocalVal
       ELSE /\ gLocalVal' = [gLocalVal EXCEPT ![name] = val]
            /\ UNCHANGED gGlobalVal
  /\ gLast' = [op |-> "assign", var |-> name, val |-> val,
               after |-> gPhase = "done"]
  /\ UNCHANGED <<gSymbols, gDefined, gBinding, gPhase, gPops, gErr>>

\* the frame reads name: the slot bound to the name is read
Frame_read(name) ==
  /\ UNCHANGED notGVars
  /\ gPhase \in {"ready", "done"}
  /\ gLast' = [op |-> "read", var |-> name,
               val |-> IF gBinding[name] = "global" THEN gGlobalVal[name]
                       ELSE gLocalVal[name],
               after |-> gPhase = "done"]
  /\ UNCHANGED <<gSymbols, gDefined, gGlobalVal, gLocalVal, gBinding, gPhase,
                 gPops, gErr>>

GNext ==
  \/ \E name \in GNames : StmtGlobal_addSymbol(name)
  \/ StmtGlobal_pushed
  \/ StmtGlobal_apply
  \/ \E name \in GNames, val \in AssignedValues : Frame_assign(name, val)
  \/ \E name \in GNames : Frame_read(name)

\* a frame with no global statement
GIdle ==
  /\ gSymbols = <<>>
  /\ gDefined = {}
  /\ gGlobalVal = [n \in GNames |-> 20]
  /\ gLocalVal = [n \in GNames |-> 10]
  /\ gBinding = [n \in GNames |-> "local"]
  /\ gPhase = "done"
  /\ gPops = 0
  /\ gErr = NoCodeError
  /\ gLast = NoRef

\* the names the statement lists
Listed == {gSymbols[i] : i \in 1..Len(gSymbols)}

\* C17: once the statement has executed, a reference to a listed symbol
\* goes to the module's global slot: a read gives the global's value, an
\* assignment is what the global then holds, and the local slot of the name
\* is no longer written.
C17_GlobalRebinds ==
  /\ [](gPhase = "done" =>
          /\ gPops = 1
          /\ \A n \in Listed : gBinding[n] = "global"
          /\ (gLast.after /\ gLast.var \in Listed)
                => gLast.val = gGlobalVal[gLast.var])
  /\ [][gPhase = "done" =>
          \A n \in Listed : gLocalVal'[n] = gLocalVal[n]]_vars

\* a listed symbol was assigned after the statement and the value sits in
\* the module global, not in the local slot
C17_Witness ==
  /\ gPhase = "done"
  /\ gLast.op = "assign"
  /\ gLast.var \in Listed
  /\ gGlobalVal[gLast.var] = gLast.val
  /\ gLocalVal[gLast.var] # gLast.val

\* the position of a listed name in the statement (a name is listed once)
PositionOf(n) == CHOOSE i \in 1..Len(gSymbols) : gSymbols[i] = n

\* the listed names the module has no global for
UndefinedListed == { n \in Listed : n \notin gDefined }

\* C33: a global statement with a listed symbol that has no global
\* definition raises a CodeError for an undefined symbol that carries the
\* current function's name and the name of the first such symbol; its code
\* frame was popped exactly once, the symbols listed before the failing one
\* are bound to their globals, and the failing one and the ones listed after
\* it are not bound. A statement whose symbols all have a global raises
\* nothing.
C33_UndefinedSymbolError ==
  /\ gPhase \in {"done", "error"} =>
        (gPhase = "error" <=> UndefinedListed # {})
  /\ gPhase = "done" => gErr = NoCodeError
  /\ gPhase = "error" =>
        /\ gErr.class = "CodeError"
        /\ gErr.code = "e_undef_sym"
        /\ gErr.symbol = "current"
        /\ gErr.extra \in UndefinedListed
        /\ \A n \in UndefinedListed : PositionOf(gErr.extra) <= PositionOf(n)
        /\ gPops = 1
        /\ \A n \in Listed :
              gBinding[n] = IF PositionOf(n) < PositionOf(gErr.extra)
                              THEN "global" ELSE "local"
        /\ \A n \in GNames \ Listed : gBinding[n] = "local"

\* the statement lists three symbols and the second one has no global: the
\* error names it, the first is bound and the third is not
C33_Witness ==
  /\ gPhase = "error"
  /\ Len(gSymbols) = 3
  /\ gErr.extra = gSymbols[2]
  /\ gPops = 1
  /\ gBinding[gSymbols[1]] = "global"
  /\ gBinding[gSymbols[3]] = "local"
  /\ gSymbols[3] \in gDefined

\* ------------------------------------------------------------------------
\* Native methods of ClassModSpace: findByName, findByURI, appendPath,
\* prependPath, load
\* ------------------------------------------------------------------------
\* an item holding an instance of the URI class
UriItem(id) == [t |-> "uri", v |-> id]

\* what ctx->param(0) can be: nothing, a string, a URI, a scalar, an
\* instance of another class
ModSpaceArgs ==
  { NullParam, StringItem(1), StringItem(2), UriItem(1), IntItem(1),
    MantraItem(1) }

MsInit ==
  /\ msPath = <<>>
  /\ msFunc = "none"
  /\ msArg = NullParam
  /\ msRaised = 0
  /\ msReturned = 0
  /\ msPushed = 0

\* the directory a string or a URI argument names
DirectoryOf(arg) == IF arg.t = "uri" THEN 2 + arg.v ELSE arg.v

\* i_name->asClassInst(cls,data) && cls->isDerivedFrom(clsUri)
IsUriInstance(arg) == arg.t = "uri"

\* internal_find_by: returnFrame with the module found, or without a value
Internal_find_by ==
  /\ msRaised' = 0
  /\ msReturned' = 1
  /\ msPushed' = 0

\* throw paramError( __LINE__, SRC )
ThrowParamError ==
  /\ msRaised' = 1
  /\ msReturned' = 0
  /\ msPushed' = 0

\* the function body ends with nothing raised, returned or pushed
FallsThrough ==
  /\ msRaised' = 0
  /\ msReturned' = 0
  /\ msPushed' = 0

\* Function_findByName::invoke
Invoke_findByName(arg) ==
  /\ UNCHANGED notMsVars
  /\ msFunc' = "findByName"
  /\ msArg' = arg
  /\ IF arg = NullParam \/ ~IsString(arg)
       THEN ThrowParamError
       ELSE Internal_find_by
  /\ UNCHANGED msPath

\* Function_findByURI::invoke
Invoke_findByURI(arg) ==
  /\ UNCHANGED notMsVars
  /\ msFunc' = "findByURI"
  /\ msArg' = arg
  /\ IF arg = NullParam THEN ThrowParamError
     ELSE IF IsString(arg) THEN Internal_find_by
     ELSE IF IsUriInstance(arg) THEN Internal_find_by
     ELSE FallsThrough
  /\ UNCHANGED msPath

\* internal_append_prepend
Internal_append_prepend(arg, append) ==
  IF arg = NullParam
    THEN ThrowParamError /\ UNCHANGED msPath
    ELSE /\ FallsThrough
         /\ IF IsString(arg) \/ IsUriInstance(arg)
              THEN msPath' = IF append
                               THEN Append(msPath, DirectoryOf(arg))
                               ELSE <<DirectoryOf(arg)>> \o msPath
              ELSE UNCHANGED msPath

\* Function_appendPath::invoke
Invoke_appendPath(arg) ==
  /\ UNCHANGED notMsVars
  /\ Len(msPath) < MaxPath
  /\ msFunc' = "appendPath"
  /\ msArg' = arg
  /\ Internal_append_prepend(arg, TRUE)

\* Function_prependPath::invoke
Invoke_prependPath(arg) ==
  /\ UNCHANGED notMsVars
  /\ Len(msPath) < MaxPath
  /\ msFunc' = "prependPath"
  /\ msArg' = arg
  /\ Internal_append_prepend(arg, FALSE)

\* Function_load::invoke: a deferred call, the return step is pushed before
\* the module is loaded in the context
Invoke_load(arg) ==
  /\ UNCHANGED notMsVars
  /\ msFunc' = "load"
  /\ msArg' = arg
  /\ IF arg = NullParam THEN ThrowParamError
     ELSE IF IsString(arg) \/ IsUriInstance(arg)
       THEN /\ msRaised' = 0
            /\ msReturned' = 0
            /\ msPushed' = 1
       ELSE FallsThrough
  /\ UNCHANGED msPath

MsNext ==
  \E arg \in ModSpaceArgs :
    \/ Invoke_findByName(arg)
    \/ Invoke_findByURI(arg)
    \/ Invoke_appendPath(arg)
    \/ Invoke_prependPath(arg)
    \/ Invoke_load(arg)

\* a ModSpace on which no method was called
MsIdle == MsInit

\* C18: a native invoke either raises an error, or returns the frame once
\* (immediate call), or pushes one return step (deferred call), whatever the
\* first argument is.
C18_ReturnsFrameOnce ==
  msFunc # "none" =>
     \/ msRaised = 1 /\ msReturned = 0 /\ msPushed = 0
     \/ msRaised = 0 /\ msReturned = 1 /\ msPushed = 0
     \/ msRaised = 0 /\ msReturned = 0 /\ msPushed = 1

\* ------------------------------------------------------------------------
\* Function::parseDescription
\* ------------------------------------------------------------------------
\* strings are sequences of characters; a letter of a name, a letter of a
\* type specification and the four characters the parser looks at
DescChars == {"&", ",", ":", " ", "a", "S"}

Descriptions == UNION { [1..n -> DescChars] : n \in 0..MaxDesc }

\* String::npos: a position past the end of every string
Npos == 2147483647

\* String::find( chr, start ): the 0-based position of the first chr at or
\* after start, npos when there is none
RECURSIVE Find(_, _, _)
Find(str, chr, start) ==
  IF start >= Len(str) THEN Npos
  ELSE IF str[start + 1] = chr THEN start
  ELSE Find(str, chr, start + 1)

\* String::subString( from, to ): the characters at from .. to-1, to capped
\* at the length
SubString(str, from, to) ==
  LET last == IF to > Len(str) THEN Len(str) ELSE to
  IN  IF from >= last THEN <<>> ELSE SubSeq(str, from + 1, last)

RECURSIVE TrimFront(_)
TrimFront(str) ==
  IF str # <<>> /\ Head(str) = " " THEN TrimFront(Tail(str)) ELSE str

RECURSIVE TrimBack(_)
TrimBack(str) ==
  IF str # <<>> /\ str[Len(str)] = " " THEN TrimBack(SubSeq(str, 1, Len(str) - 1)) ELSE str

\* String::trim()
Trim(str) == TrimBack(TrimFront(str))

\* String::getCharAt( pos ): the terminator past the last character
CharAt(str, pos) == IF pos < Len(str) THEN str[pos + 1] ELSE "end"

\* Function::addParam
AddParam(names, name) == Append(names, name)

\* Function::signature( sign )
SetSignature(sign) == sign

\* pColon == 0: the entry has no name before the ':'
EmptyName_never(pColon) == FALSE

EmptyName(pColon) == pColon = 0

\* m_signature.size() > 0: a comma goes before the type specification
NeedsComma(signature) == Len(signature) > 0

\* the loop over the leading '&' characters: the position it stops at
RECURSIVE SkipEta(_, _)
SkipEta(params, ppos) ==
  IF CharAt(params, ppos) = "&" THEN SkipEta(params, ppos + 1) ELSE ppos

\* the do-while loop over the comma-separated entries, from position ppos
RECURSIVE ParseEntries(_, _, _, _)
ParseEntries(params, ppos, names, signature) ==
  LET pos == Find(params, ",", ppos)
      param == Trim(SubString(params, ppos, pos))
      pColon == Find(param, ":", 0)
  IN  IF pColon = Npos \/ EmptyName(pColon)
        THEN [ok |-> FALSE, names |-> names, signature |-> signature]
        ELSE LET pname == Trim(SubString(param, 0, pColon))
                 psig == Trim(SubString(param, pColon + 1, Npos))
                 names2 == AddParam(names, pname)
                 sig2 == (IF NeedsComma(signature)
                            THEN signature \o <<",">>
                            ELSE signature) \o psig
             IN  IF pos # Npos
                   THEN ParseEntries(params, pos + 1, names2, sig2)
                   ELSE [ok |-> TRUE, names |-> names2, signature |-> sig2]

\* a Function just constructed: no parameter, empty signature, not ETA
FdInit ==
  /\ fdDesc \in Descriptions
  /\ fdNames = <<>>
  /\ fdSignature = <<>>
  /\ fdEta = FALSE
  /\ fdResult = "none"

\* Function::parseDescription
Function_parseDescription ==
  /\ UNCHANGED notFdVars
  /\ fdResult = "none"
  /\ LET ppos == SkipEta(fdDesc, 0)
     IN  /\ fdEta' = IF ppos > 0 THEN TRUE ELSE fdEta
         /\ IF ppos >= Len(fdDesc)
              THEN /\ fdResult' = "true"
                   /\ fdSignature' = <<>>
                   /\ UNCHANGED fdNames
              ELSE LET r == ParseEntries(fdDesc, ppos, fdNames, <<>>)
                   IN  /\ fdResult' = IF r.ok THEN "true" ELSE "false"
                       /\ fdNames' = r.names
                       /\ fdSignature' = r.signature
  /\ UNCHANGED fdDesc

FdNext == Function_parseDescription

\* a Function declared with the empty description
FdIdle ==
  /\ fdDesc = <<>>
  /\ fdNames = <<>>
  /\ fdSignature = <<>>
  /\ fdEta = FALSE
  /\ fdResult = "true"

\* what the description says, read without the parser: the text after the
\* leading '&' characters, cut at the commas
RECURSIVE LeadingAmps(_)
LeadingAmps(str) ==
  IF str # <<>> /\ Head(str) = "&" THEN 1 + LeadingAmps(Tail(str)) ELSE 0

EntriesText(str) == SubSeq(str, LeadingAmps(str) + 1, Len(str))

RECURSIVE SplitAt(_, _)
SplitAt(str, chr) ==
  IF \A i \in 1..Len(str) : str[i] # chr THEN <<str>>
  ELSE LET i == CHOOSE k \in 1..Len(str) :
                  str[k] = chr /\ \A j \in 1..(k - 1) : str[j] # chr
       IN  <<SubSeq(str, 1, i - 1)>> \o SplitAt(SubSeq(str, i + 1, Len(str)), chr)

Entries(str) == IF EntriesText(str) = <<>> THEN <<>> ELSE SplitAt(EntriesText(str), ",")

HasColon(entry) == \E i \in 1..Len(entry) : entry[i] = ":"

ColonAt(entry) ==
  CHOOSE k \in 1..Len(entry) :
    entry[k] = ":" /\ \A j \in 1..(k - 1) : entry[j] # ":"

EntryName(entry) == Trim(SubSeq(entry, 1, ColonAt(entry) - 1))

EntryType(entry) == Trim(SubSeq(entry, ColonAt(entry) + 1, Len(entry)))

\* an entry without ':' or with nothing but blanks before it
Malformed(entry) == ~HasColon(entry) \/ EntryName(entry) = <<>>

WellFormed(str) == \A i \in 1..Len(Entries(str)) : ~Malformed(Entries(str)[i])

RECURSIVE JoinWithCommas(_)
JoinWithCommas(specs) ==
  IF specs = <<>> THEN <<>>
  ELSE IF Len(specs) = 1 THEN specs[1]
  ELSE specs[1] \o <<",">> \o JoinWithCommas(Tail(specs))

\* the Function built by hand: addParam for each name, then signature()
RECURSIVE AddParams(_, _)
AddParams(names, more) ==
  IF more = <<>> THEN names
  ELSE AddParams(AddParam(names, Head(more)), Tail(more))

NamesOf(str) == [i \in 1..Len(Entries(str)) |-> EntryName(Entries(str)[i])]

TypesOf(str) == [i \in 1..Len(Entries(str)) |-> EntryType(Entries(str)[i])]

\* C21: for a well-formed description parseDescription returns true and
\* leaves the Function as addParam(n1) ... addParam(nk) followed by
\* signature("s1,...,sk") do: k parameters, the trimmed names in order, the
\* type specifications joined by commas; the function is ETA exactly when
\* the description starts with '&'.
C21_DescriptionEquivalence ==
  (fdResult # "none" /\ WellFormed(fdDesc)) =>
     /\ fdResult = "true"
     /\ fdNames = AddParams(<<>>, NamesOf(fdDesc))
     /\ Len(fdNames) = Len(Entries(fdDesc))
     /\ fdSignature = SetSignature(JoinWithCommas(TypesOf(fdDesc)))
     /\ fdEta = (LeadingAmps(fdDesc) > 0)

\* C21 without the empty type specifications: the equivalence for the
\* descriptions whose entries all carry a type specification
C21_NonEmptyTypes ==
  (/\ fdResult # "none"
   /\ WellFormed(fdDesc)
   /\ \A i \in 1..Len(Entries(fdDesc)) : TypesOf(fdDesc)[i] # <<>>) =>
     /\ fdResult = "true"
     /\ fdNames = AddParams(<<>>, NamesOf(fdDesc))
     /\ fdSignature = SetSignature(JoinWithCommas(TypesOf(fdDesc)))
     /\ fdEta = (LeadingAmps(fdDesc) > 0)

\* C22: parseDescription returns false exactly when some comma-separated
\* entry lacks a ':' or has an empty name before it (the empty entry of a
\* trailing or doubled comma included), and true otherwise.
C22_MalformedRejected ==
  fdResult # "none" =>
    (fdResult = "false" <=> ~WellFormed(fdDesc))

\* a description with a trailing comma was rejected, and one with two
\* entries was accepted
C22_Witness ==
  /\ fdResult = "false"
  /\ fdDesc = <<"a", ":", "S", ",">>

\* C32: when parseDescription returns false the parameter list, the
\* signature and the ETA flag of the Function are what they were before the
\* call.
C32_FailureLeavesStateUnchanged ==
  [][fdResult' = "false" => UNCHANGED <<fdNames, fdSignature, fdEta>>]_vars

\* ------------------------------------------------------------------------
\* Engine::init, Engine::shutdown, Engine::instance (assertions compiled out)
\* ------------------------------------------------------------------------
EnInit ==
  /\ enInstance = 0
  /\ enConstructed = 0
  /\ enDestroys = <<>>
  /\ enCalls = <<>>
  /\ enRet = 0

\* if( m_instance == 0 ) in init
NoInstance_always(instance) == TRUE

NoInstance(instance) == instance = 0

\* if( m_instance != 0 ) in shutdown
HasInstance(instance) == instance # 0

\* Engine::init
Engine_init ==
  /\ UNCHANGED notEnVars
  /\ Len(enCalls) < MaxCalls
  /\ enCalls' = Append(enCalls, "init")
  /\ IF NoInstance(enInstance)
       THEN /\ enConstructed' = enConstructed + 1
            /\ enDestroys' = Append(enDestroys, 0)
            /\ enInstance' = enConstructed + 1
       ELSE UNCHANGED <<enInstance, enConstructed, enDestroys>>
  /\ UNCHANGED enRet

\* Engine::shutdown
Engine_shutdown ==
  /\ UNCHANGED notEnVars
  /\ Len(enCalls) < MaxCalls
  /\ enCalls' = Append(enCalls, "shutdown")
  /\ IF HasInstance(enInstance)
       THEN /\ enDestroys' = [enDestroys EXCEPT ![enInstance] = @ + 1]
            /\ enInstance' = 0
       ELSE UNCHANGED <<enInstance, enDestroys>>
  /\ UNCHANGED <<enConstructed, enRet>>

\* Engine::instance
Engine_instance ==
  /\ UNCHANGED notEnVars
  /\ Len(enCalls) < MaxCalls
  /\ enCalls' = Append(enCalls, "instance")
  /\ enRet' = enInstance
  /\ UNCHANGED <<enInstance, enConstructed, enDestroys>>

EnNext ==
  \/ Engine_init
  \/ Engine_shutdown
  \/ Engine_instance

\* an engine that was never initialised
EnIdle == EnInit

\* the Engine objects constructed and not deleted
LiveEngines == { e \in 1..enConstructed : enDestroys[e] = 0 }

\* the calls say the engine is initialised: the last init or shutdown call
\* made is an init
RECURSIVE InitialisedAfter(_)
InitialisedAfter(calls) ==
  IF calls = <<>> THEN FALSE
  ELSE LET last == calls[Len(calls)]
       IN  IF last = "init" THEN TRUE
           ELSE IF last = "shutdown" THEN FALSE
           ELSE InitialisedAfter(SubSeq(calls, 1, Len(calls) - 1))

\* at most one Engine exists, no Engine was deleted twice, m_instance is
\* non-null exactly when the calls say the engine is initialised, and it
\* then points at the one live Engine; instance() returns it
SingleEngineState ==
  /\ Cardinality(LiveEngines) <= 1
  /\ \A e \in 1..enConstructed : enDestroys[e] <= 1
  /\ (enInstance # 0) <=> InitialisedAfter(enCalls)
  /\ LiveEngines = IF enInstance = 0 THEN {} ELSE {enInstance}
  /\ (enCalls # <<>> /\ enCalls[Len(enCalls)] = "instance") =>
        ((enRet # 0) <=> InitialisedAfter(enCalls))

\* an init() while initialised and a shutdown() while not initialised
\* construct nothing, delete nothing and leave m_instance alone
RedundantCallChangesNothing ==
  /\ (Engine_init /\ enInstance # 0) =>
        UNCHANGED <<enInstance, enConstructed, enDestroys, enRet>>
  /\ (Engine_shutdown /\ enInstance = 0) =>
        UNCHANGED <<enInstance, enConstructed, enDestroys, enRet>>

\* C23: in every sequence of init(), shutdown() and instance() calls made by
\* one thread, at most one Engine exists at any time, no Engine is deleted
\* twice, and instance() is non-null exactly after an init() not yet followed
\* by a shutdown(); with assertions compiled out, an init() while initialised
\* and a shutdown() while not initialised change nothing.
C23_SingleEngine ==
  /\ []SingleEngineState
  /\ [][RedundantCallChangesNothing]_vars

\* the engine was initialised, shut down and initialised again, after an
\* init() while initialised and a shutdown() while not initialised
C23_Witness ==
  /\ enCalls = <<"init", "init", "shutdown", "shutdown", "init">>
  /\ enInstance = 2
  /\ enDestroys = <<1, 0>>

\* ------------------------------------------------------------------------
\* Engine::addTranscoder, Engine::getTranscoder
\* ------------------------------------------------------------------------
\* the transcoder objects, by the encoding name each one serves: the first
\* two are the ones the Engine constructor registers
TranscoderName == <<"C", "utf8", "C", "latin1", "latin1">>

Transcoders == 1..Len(TranscoderName)

EncodingNames == {"C", "utf8", "latin1", "koi8"}

\* what a call returned: addTranscoder gives 1 for true and 0 for false,
\* getTranscoder the transcoder or 0
Returned(call, val) == [call |-> call, val |-> val]

NoReturn == Returned("none", 0)

\* the registry after new Engine: TranscoderC and TranscoderUTF8
TrInit ==
  /\ trCoders = [n \in EncodingNames |->
                   IF n = "C" THEN 1 ELSE IF n = "utf8" THEN 2 ELSE 0]
  /\ trMtx = 0
  /\ trPc = [t \in Threads |-> "idle"]
  /\ trArg = [t \in Threads |-> 0]
  /\ trRet = [t \in Threads |-> NoReturn]
  /\ trAdded = <<1, 2>>

\* iter != m_tcoders->end() after find( name )
Registered_never(coders, name) == FALSE

Registered(coders, name) == coders[name] # 0

\* m_mtx->lock() on entering addTranscoder( ts )
AddTranscoder_lock(t, ts) ==
  /\ UNCHANGED notTrVars
  /\ trPc[t] = "idle"
  /\ Len(trAdded) + Cardinality({u \in Threads : trPc[u] = "add"}) < MaxAdds
  /\ trMtx = 0
  /\ trMtx' = t
  /\ trPc' = [trPc EXCEPT ![t] = "add"]
  /\ trArg' = [trArg EXCEPT ![t] = ts]
  /\ UNCHANGED <<trCoders, trRet, trAdded>>

\* the rest of addTranscoder: find, and either unlock and return false or
\* insert, unlock and return true
AddTranscoder_body(t) ==
  /\ UNCHANGED notTrVars
  /\ trPc[t] = "add"
  /\ LET ts == trArg[t]
         name == TranscoderName[ts]
     IN  /\ IF Registered(trCoders, name)
              THEN /\ trMtx' = 0
                   /\ trRet' = [trRet EXCEPT ![t] = Returned("add", 0)]
                   /\ UNCHANGED trCoders
              ELSE /\ trCoders' = [trCoders EXCEPT ![name] = ts]
                   /\ trMtx' = 0
                   /\ trRet' = [trRet EXCEPT ![t] = Returned("add", 1)]
         /\ trAdded' = Append(trAdded, ts)
  /\ trPc' = [trPc EXCEPT ![t] = "idle"]
  /\ UNCHANGED trArg

\* m_mtx->lock() on entering getTranscoder( name )
GetTranscoder_lock(t, name) ==
  /\ UNCHANGED notTrVars
  /\ trPc[t] = "idle"
  /\ trMtx = 0
  /\ trMtx' = t
  /\ trPc' = [trPc EXCEPT ![t] = "get"]
  /\ trArg' = [trArg EXCEPT ![t] = name]
  /\ UNCHANGED <<trCoders, trRet, trAdded>>

\* the rest of getTranscoder: find, and either unlock and return 0 or read
\* the transcoder, unlock and return it
GetTranscoder_body(t) ==
  /\ UNCHANGED notTrVars
  /\ trPc[t] = "get"
  /\ LET name == trArg[t]
     IN  IF ~Registered(trCoders, name)
           THEN /\ trMtx' = 0
                /\ trRet' = [trRet EXCEPT ![t] = Returned("get", 0)]
           ELSE /\ trRet' = [trRet EXCEPT ![t] = Returned("get", trCoders[name])]
                /\ trMtx' = 0
  /\ trPc' = [trPc EXCEPT ![t] = "idle"]
  /\ UNCHANGED <<trCoders, trArg, trAdded>>

TrNext ==
  \E t \in Threads :
    \/ \E ts \in Transcoders : AddTranscoder_lock(t, ts)
    \/ AddTranscoder_body(t)
    \/ \E name \in EncodingNames : GetTranscoder_lock(t, name)
    \/ GetTranscoder_body(t)

\* an engine whose registry no thread uses
TrIdle ==
  /\ trCoders = [n \in EncodingNames |->
                   IF n = "C" THEN 1 ELSE IF n = "utf8" THEN 2 ELSE 0]
  /\ trMtx = 0
  /\ trPc = [t \in Threads |-> "idle"]
  /\ trArg = [t \in Threads |-> 0]
  /\ trRet = [t \in Threads |-> NoReturn]
  /\ trAdded = <<1, 2>>

\* the first transcoder of that name handed to addTranscoder, 0 when none
FirstAdded(name) ==
  IF \E i \in 1..Len(trAdded) : TranscoderName[trAdded[i]] = name
    THEN trAdded[CHOOSE i \in 1..Len(trAdded) :
                   /\ TranscoderName[trAdded[i]] = name
                   /\ \A j \in 1..(i - 1) : TranscoderName[trAdded[j]] # name]
    ELSE 0

\* the registry holds, under each name, the first transcoder added with
\* that name, and a thread outside the two methods does not hold the mutex
RegistryState ==
  /\ \A n \in EncodingNames : trCoders[n] = FirstAdded(n)
  /\ \A n \in EncodingNames :
        trCoders[n] # 0 => TranscoderName[trCoders[n]] = n
  /\ \A t \in Threads : trPc[t] = "idle" => trMtx # t

\* what the two methods return and do to the registry
RegistryStep ==
  \A t \in Threads :
    /\ AddTranscoder_body(t) =>
         LET name == TranscoderName[trArg[t]]
         IN  IF trCoders[name] = 0
               THEN /\ trRet'[t] = Returned("add", 1)
                    /\ trCoders' = [trCoders EXCEPT ![name] = trArg[t]]
               ELSE /\ trRet'[t] = Returned("add", 0)
                    /\ trCoders' = trCoders
    /\ GetTranscoder_body(t) =>
         /\ trRet'[t] = Returned("get", FirstAdded(trArg[t]))
         /\ trCoders' = trCoders
    /\ (AddTranscoder_body(t) \/ GetTranscoder_body(t)) => trMtx' = 0

\* C24: at most one transcoder is registered per encoding name;
\* addTranscoder returns true and registers the transcoder when its name is
\* not registered yet, returns false and leaves the registry alone when it
\* is; getTranscoder returns the first transcoder registered under the name,
\* or null; the engine mutex is released on every return path.
C24_TranscoderRegistry ==
  /\ []RegistryState
  /\ [][RegistryStep]_vars

\* a second latin1 transcoder was refused after the first was registered,
\* and getTranscoder gave the first
C24_Witness ==
  /\ trAdded = <<1, 2, 4, 5>>
  /\ trCoders["latin1"] = 4
  /\ \E t \in Threads : trRet[t] = Returned("add", 0)
  /\ \E t \in Threads : trRet[t] = Returned("get", 4)

\* ------------------------------------------------------------------------
\* gcMark: ClassModSpace, ClassModule, Writer and its Stream
\* ------------------------------------------------------------------------
MarkKind == <<"modspace", "module", "writer", "stream">>

MarkObjs == 1..Len(MarkKind)

\* what an object of each kind can reference: a Writer only its stream, a
\* Stream nothing, a Module or ModSpace any Module, ModSpace or Writer
MarkTargets(o) ==
  CASE MarkKind[o] = "writer" -> {q \in MarkObjs : MarkKind[q] = "stream"}
    [] MarkKind[o] = "stream" -> {}
    [] OTHER -> {q \in MarkObjs : MarkKind[q] # "stream"}

\* the items the collector marks from: the roots, in which the same object
\* can show up more than once
MarkRoots ==
  { r \in UNION { [1..n -> MarkObjs] : n \in 1..2 } :
      \A i \in 1..Len(r) : MarkKind[r[i]] # "stream" }

MkInit ==
  /\ mkRefs \in { f \in [MarkObjs -> SUBSET MarkObjs] :
                    \A o \in MarkObjs : f[o] \subseteq MarkTargets(o) }
  /\ mkMark = [o \in MarkObjs |-> 0]
  /\ mkCur = 0
  /\ mkStack = <<>>
  /\ mkRecursed = [o \in MarkObjs |-> 0]

\* the members of a set of objects, lowest first
RECURSIVE InOrder(_)
InOrder(S) ==
  IF S = {} THEN <<>>
  ELSE LET o == CHOOSE x \in S : \A y \in S : x <= y
       IN  <<o>> \o InOrder(S \ {o})

MkTop == mkStack[Len(mkStack)]

MkPop == SubSeq(mkStack, 1, Len(mkStack) - 1)

\* the collector starts a mark phase with a new mark and marks the roots
Collector_markRoots(roots) ==
  /\ UNCHANGED notMkVars
  /\ mkStack = <<>>
  /\ mkCur < MaxMark
  /\ mkCur' = mkCur + 1
  /\ mkStack' = roots
  /\ mkRecursed' = [o \in MarkObjs |-> 0]
  /\ UNCHANGED <<mkRefs, mkMark>>

\* gcMark of an object that tests its stamp before marking what it
\* references
StampedGcMark(o) ==
  IF mkMark[o] = mkCur
    THEN /\ mkStack' = MkPop
         /\ UNCHANGED <<mkMark, mkRecursed>>
    ELSE /\ mkMark' = [mkMark EXCEPT ![o] = mkCur]
         /\ mkRecursed' = [mkRecursed EXCEPT ![o] = @ + 1]
         /\ mkStack' = MkPop \o InOrder(mkRefs[o])

\* ClassModule::gcMarkInstance
ClassModule_gcMarkInstance ==
  /\ UNCHANGED notMkVars
  /\ mkStack # <<>>
  /\ MarkKind[MkTop] = "module"
  /\ StampedGcMark(MkTop)
  /\ UNCHANGED <<mkRefs, mkCur>>

\* ClassModSpace::gcMarkInstance
ClassModSpace_gcMarkInstance ==
  /\ UNCHANGED notMkVars
  /\ mkStack # <<>>
  /\ MarkKind[MkTop] = "modspace"
  /\ StampedGcMark(MkTop)
  /\ UNCHANGED <<mkRefs, mkCur>>

\* Writer::gcMark( mark )
Writer_gcMark ==
  /\ UNCHANGED notMkVars
  /\ mkStack # <<>>
  /\ MarkKind[MkTop] = "writer"
  /\ mkMark' = [mkMark EXCEPT ![MkTop] = mkCur]
  /\ IF mkRefs[MkTop] # {}
       THEN /\ mkRecursed' = [mkRecursed EXCEPT ![MkTop] = @ + 1]
            /\ mkStack' = MkPop \o InOrder(mkRefs[MkTop])
       ELSE /\ mkStack' = MkPop
            /\ UNCHANGED mkRecursed
  /\ UNCHANGED <<mkRefs, mkCur>>

\* Stream::gcMark( mark ): a stream references nothing
Stream_gcMark ==
  /\ UNCHANGED notMkVars
  /\ mkStack # <<>>
  /\ MarkKind[MkTop] = "stream"
  /\ mkMark' = [mkMark EXCEPT ![MkTop] = mkCur]
  /\ mkStack' = MkPop
  /\ UNCHANGED <<mkRefs, mkCur, mkRecursed>>

MkNext ==
  \/ \E roots \in MarkRoots : Collector_markRoots(roots)
  \/ ClassModule_gcMarkInstance
  \/ ClassModSpace_gcMarkInstance
  \/ Writer_gcMark
  \/ Stream_gcMark

\* a heap on which no collection ran
MkIdle ==
  /\ mkRefs = [o \in MarkObjs |-> {}]
  /\ mkMark = [o \in MarkObjs |-> 0]
  /\ mkCur = 0
  /\ mkStack = <<>>
  /\ mkRecursed = [o \in MarkObjs |-> 0]

\* C26: within one collection no object's gcMark goes into the objects it
\* references more than once: marking an object that already carries the
\* current mark does not recurse again (the Writer and its stream included).
C26_ChildrenVisitedOnce ==
  \A o \in MarkObjs : mkRecursed[o] <= 1

\* the same for the objects other than the Writer
C26_StampedVisitedOnce ==
  \A o \in MarkObjs : MarkKind[o] # "writer" => mkRecursed[o] <= 1

\* ------------------------------------------------------------------------
\* MTRand_interlocked
\* ------------------------------------------------------------------------
\* the public operations; seed() and seedWithPid() are the ones inherited
\* from MTRand
MtOperations ==
  {"randInt", "seed_uint32", "seed_array", "seed", "seedWithPid", "save",
   "load"}

\* the parts an operation goes through, in order: taking and releasing
\* m_mtx, and the accesses to state, pNext and left
\*   test       if( left == 0 )
\*   reload     MTRand::reload
\*   take       --left; s1 = *pNext++
\*   initialize MTRand::initialize
\*   mix        the two loops of MTRand::seed( bigSeed, seedLength )
\*   copyOut    MTRand::save
\*   copyIn     MTRand::load
\*   hash       MTRand::hash, which does not touch the generator
MtParts(op) ==
  CASE op = "randInt" -> <<"lock", "test", "reload", "take", "unlock">>
    [] op = "seed_uint32" -> <<"lock", "initialize", "reload", "unlock">>
    [] op = "seed_array" -> <<"lock", "initialize", "mix", "reload", "unlock">>
    [] op = "seed" -> <<"hash", "initialize", "reload">>
    [] op = "seedWithPid" -> <<"hash", "initialize", "reload">>
    [] op = "save" -> <<"lock", "copyOut", "unlock">>
    [] OTHER -> <<"lock", "copyIn", "unlock">>

\* the generator after construction: seeded and reloaded
MtInit ==
  /\ mtLeft = MtStateLen
  /\ mtMtx = 0
  /\ mtOp = [t \in Threads |-> "none"]
  /\ mtAt = [t \in Threads |-> 0]

MtPart(t) == IF mtOp[t] = "none" THEN "none" ELSE MtParts(mtOp[t])[mtAt[t]]

\* thread t enters the part at position i of its operation op
MtEnter(t, op, i) ==
  LET part == MtParts(op)[i]
  IN  /\ mtAt' = [mtAt EXCEPT ![t] = i]
      /\ CASE part = "lock" ->
                /\ mtMtx = 0
                /\ mtMtx' = t
                /\ UNCHANGED mtLeft
           [] part = "unlock" ->
                /\ mtMtx' = 0
                /\ UNCHANGED mtLeft
           [] part = "reload" ->
                /\ mtLeft' = MtStateLen
                /\ UNCHANGED mtMtx
           [] part = "take" ->
                /\ mtLeft' = mtLeft - 1
                /\ UNCHANGED mtMtx
           [] part = "copyIn" ->
                /\ mtLeft' \in 0..MtStateLen
                /\ UNCHANGED mtMtx
           [] OTHER -> UNCHANGED <<mtLeft, mtMtx>>

\* a thread calls one of the public operations and enters its first part
MtCall(t, op) ==
  /\ UNCHANGED notMtVars
  /\ mtOp[t] = "none"
  /\ mtOp' = [mtOp EXCEPT ![t] = op]
  /\ MtEnter(t, op, 1)

\* the position after i in the operation: randInt goes from the test to the
\* reload only when left is 0
MtAfter(op, i) ==
  IF MtParts(op)[i] = "test" /\ mtLeft # 0 THEN i + 2 ELSE i + 1

\* a thread goes on to the next part of its operation, or returns
Mt_continue(t) ==
  /\ UNCHANGED notMtVars
  /\ mtOp[t] # "none"
  /\ LET op == mtOp[t]
         i == MtAfter(op, mtAt[t])
     IN  IF i > Len(MtParts(op))
           THEN /\ mtOp' = [mtOp EXCEPT ![t] = "none"]
                /\ mtAt' = [mtAt EXCEPT ![t] = 0]
                /\ UNCHANGED <<mtLeft, mtMtx>>
           ELSE /\ MtEnter(t, op, i)
                /\ UNCHANGED mtOp

MtNext ==
  \E t \in Threads :
    \/ \E op \in MtOperations : MtCall(t, op)
    \/ Mt_continue(t)

\* a generator no thread uses
MtIdle == MtInit

\* the parts that read or write state, pNext or left
MtStateParts ==
  {"test", "reload", "take", "initialize", "mix", "copyOut", "copyIn"}

\* C27: every read or write of the generator state, every execution of
\* reload() and initialize() included, happens while the thread holds the
\* generator's mutex, in each public operation; no two threads are in
\* reload() or initialize() at the same time.
C27_StateUnderMutex ==
  /\ \A t \in Threads : MtPart(t) \in MtStateParts => mtMtx = t
  /\ \A t, u \in Threads :
        (t # u /\ MtPart(t) \in {"reload", "initialize"})
           => MtPart(u) \notin {"reload", "initialize"}

\* the same for the operations MTRand_interlocked defines itself
C27_OverriddenUnderMutex ==
  \A t \in Threads :
    (mtOp[t] \notin {"seed", "seedWithPid"} /\ MtPart(t) \in MtStateParts)
       => mtMtx = t

\* ------------------------------------------------------------------------
\* Engine::Engine and Engine::~Engine
\* ------------------------------------------------------------------------
IndexIn(seq, x) == CHOOSE i \in 1..Len(seq) : seq[i] = x

SeqRange(seq) == { seq[i] : i \in 1..Len(seq) }

\* the pointer members the constructor sets with new, in the order of the
\* constructor
EngineMembers ==
  <<"m_mtx", "m_collector", "m_functionClass", "m_stringClass",
    "m_arrayClass", "m_codeErrorClass", "m_genericErrorClass",
    "m_interruptedErrorClass", "m_ioErrorClass", "m_operandErrorClass",
    "m_unsupportedErrorClass", "m_encodingErrorClass", "m_syntaxErrorClass",
    "m_tcoders">>

\* the slots of m_classes the constructor fills with a new handler of their
\* own, in the order of the constructor
OwnClassSlots == <<"nil", "bool", "int", "num", "method", "basemethod">>

\* all the slots of m_classes, in the order of the item types
ClassSlots ==
  <<"nil", "bool", "int", "num", "user", "framing", "func", "method",
    "basemethod", "deep">>

\* the transcoders the constructor registers, and the ones the application
\* can register later
StdTranscoders == <<"C", "utf8">>

MoreTranscoders == {"latin1", "koi8"}

TranscoderNames == SeqRange(StdTranscoders) \cup MoreTranscoders

EoInit ==
  /\ eoAlive = FALSE
  /\ eoMember = [m \in SeqRange(EngineMembers) |-> 0]
  /\ eoClasses = [c \in SeqRange(ClassSlots) |-> 0]
  /\ eoTcoders = [n \in TranscoderNames |-> 0]
  /\ eoMade = <<>>
  /\ eoDeleted = <<>>
  /\ eoRounds = 0

\* Engine::Engine, run by init(): every new gives the next object
Engine_Engine ==
  /\ UNCHANGED notEoVars
  /\ ~eoAlive
  /\ eoRounds < MaxRounds
  /\ LET base == Len(eoMade)
         nm == Len(EngineMembers)
         nc == Len(OwnClassSlots)
         nt == Len(StdTranscoders)
         member == [m \in SeqRange(EngineMembers) |->
                      base + IndexIn(EngineMembers, m)]
     IN  /\ eoMember' = member
         /\ eoClasses' =
              [c \in SeqRange(ClassSlots) |->
                 IF c \in SeqRange(OwnClassSlots)
                   THEN base + nm + IndexIn(OwnClassSlots, c)
                   ELSE IF c = "func" THEN member["m_functionClass"]
                   ELSE 0]
         /\ eoTcoders' =
              [n \in TranscoderNames |->
                 IF n \in SeqRange(StdTranscoders)
                   THEN base + nm + nc + IndexIn(StdTranscoders, n)
                   ELSE 0]
         /\ eoMade' = eoMade \o [i \in 1..(nm + nc + nt) |-> "constructor"]
         /\ eoDeleted' = eoDeleted \o [i \in 1..(nm + nc + nt) |-> 0]
  /\ eoAlive' = TRUE
  /\ eoRounds' = eoRounds + 1

\* Engine::addTranscoder with a transcoder whose name is not registered: the
\* engine takes the ownership of the caller's object
Engine_addTranscoder(name) ==
  /\ UNCHANGED notEoVars
  /\ eoAlive
  /\ eoTcoders[name] = 0
  /\ eoMade' = Append(eoMade, "application")
  /\ eoDeleted' = Append(eoDeleted, 0)
  /\ eoTcoders' = [eoTcoders EXCEPT ![name] = Len(eoMade) + 1]
  /\ UNCHANGED <<eoAlive, eoMember, eoClasses, eoRounds>>

\* the members ~Engine deletes one by one, in the order of the destructor
DeletedMembers ==
  <<"m_mtx", "m_collector", "m_stringClass", "m_arrayClass",
    "m_codeErrorClass", "m_genericErrorClass", "m_ioErrorClass",
    "m_interruptedErrorClass", "m_operandErrorClass",
    "m_unsupportedErrorClass", "m_encodingErrorClass">>

\* how many times ~Engine hands the object to delete: once for each of
\* the members, of the slots of m_classes and of the transcoders of the map
\* that point at it, and once for the map
Deletes(o) ==
  Cardinality({ m \in SeqRange(DeletedMembers) : eoMember[m] = o })
    + Cardinality({ c \in SeqRange(ClassSlots) : eoClasses[c] = o })
    + Cardinality({ n \in TranscoderNames : eoTcoders[n] = o })
    + (IF eoMember["m_tcoders"] = o THEN 1 ELSE 0)

\* Engine::~Engine, run by shutdown(): delete of a null pointer does nothing
Engine_destroy ==
  /\ UNCHANGED notEoVars
  /\ eoAlive
  /\ eoDeleted' =
       [o \in 1..Len(eoDeleted) |-> eoDeleted[o] + Deletes(o)]
  /\ eoAlive' = FALSE
  /\ UNCHANGED <<eoMember, eoClasses, eoTcoders, eoMade, eoRounds>>

EoNext ==
  \/ Engine_Engine
  \/ \E name \in MoreTranscoders : Engine_addTranscoder(name)
  \/ Engine_destroy

\* no Engine was ever constructed
EoIdle == EoInit

\* the objects of the Engine constructed last
LastEngineObjects ==
  ({ eoTcoders[n] : n \in TranscoderNames }
     \cup { eoMember[m] : m \in SeqRange(EngineMembers) }
     \cup { eoClasses[c] : c \in SeqRange(ClassSlots) }) \ {0}

\* C31: after shutdown() every object the Engine constructor allocated was
\* deleted exactly once, and the destructor deleted nothing but objects the
\* Engine owns.
C31_ConstructedDestroyedOnce ==
  /\ \A o \in 1..Len(eoMade) : eoDeleted[o] <= 1
  /\ (~eoAlive) =>
        \A o \in 1..Len(eoMade) : eoMade[o] = "constructor" => eoDeleted[o] = 1

\* what does hold: nothing is deleted twice, a live Engine's objects are not
\* deleted, and after shutdown() every object of the Engine but the one
\* m_syntaxErrorClass points at was deleted once
C31_AllButSyntaxError ==
  /\ \A o \in 1..Len(eoMade) : eoDeleted[o] <= 1
  /\ eoAlive => \A o \in LastEngineObjects : eoDeleted[o] = 0
  /\ (~eoAlive /\ eoRounds > 0) =>
        \A o \in LastEngineObjects :
           eoDeleted[o] = IF o = eoMember["m_syntaxErrorClass"] THEN 0 ELSE 1

\* ------------------------------------------------------------------------
\* Specifications
\* ------------------------------------------------------------------------
\* the pool as constructed and untouched
PoolIdle ==
  /\ m_head = NULL
  /\ m_next = [o \in Objs |-> NULL]
  /\ m_size = 0
  /\ m_maxSize = 0
  /\ m_mtx = NULL
  /\ pc = [t \in Threads |-> "idle"]
  /\ p = [t \in Threads |-> NULL]
  /\ s = 0
  /\ owner = [o \in Objs |-> 1]
  /\ held = [o \in Objs |-> 1]
  /\ deleted = [o \in Objs |-> 0]
  /\ linkOrder = <<>>
  /\ onlyReleases = TRUE

\* a context that executes nothing
ExprIdle ==
  /\ expr = Leaf(NilItem)
  /\ pcode = <<>>
  /\ seqId = 0
  /\ baseDepth = 0
  /\ dataStack = <<>>
  /\ status = "done"
  /\ trace = <<>>

\* a context with an empty code stack
StarIdle ==
  /\ codeStack = <<>>
  /\ ctxData = <<>>
  /\ starBase = 0
  /\ evalLog = <<>>
  /\ produced = <<>>
  /\ starPops = 0
  /\ starStatus = "done"

\* a module on which no method was called
NativeIdle == NativeInit

InitPool == PoolInit /\ ExprIdle /\ StarIdle /\ NativeIdle /\ GcIdle /\ TcIdle /\ UIdle /\ CIdle /\ ClIdle /\ GIdle /\ MsIdle /\ FdIdle /\ EnIdle /\ TrIdle /\ MkIdle /\ MtIdle /\ EoIdle

SpecPool == InitPool /\ [][PoolNext]_vars

InitExpr == ExprInit /\ PoolIdle /\ StarIdle /\ NativeIdle /\ GcIdle /\ TcIdle /\ UIdle /\ CIdle /\ ClIdle /\ GIdle /\ MsIdle /\ FdIdle /\ EnIdle /\ TrIdle /\ MkIdle /\ MtIdle /\ EoIdle

InitStar == StarInit /\ PoolIdle /\ ExprIdle /\ NativeIdle /\ GcIdle /\ TcIdle /\ UIdle /\ CIdle /\ ClIdle /\ GIdle /\ MsIdle /\ FdIdle /\ EnIdle /\ TrIdle /\ MkIdle /\ MtIdle /\ EoIdle

SpecStar == InitStar /\ [][StarNext]_vars

SpecExpr == InitExpr /\ [][ExprNext]_vars

\* the context keeps applying steps while the frame is on the code stack
SpecExprFair == InitExpr /\ [][ExprNext]_vars /\ WF_vars(ExprNext)

InitNative == NativeInit /\ PoolIdle /\ ExprIdle /\ StarIdle /\ GcIdle /\ TcIdle /\ UIdle /\ CIdle /\ ClIdle /\ GIdle /\ MsIdle /\ FdIdle /\ EnIdle /\ TrIdle /\ MkIdle /\ MtIdle /\ EoIdle

SpecNative == InitNative /\ [][NativeNext]_vars

InitGc == GcInit /\ PoolIdle /\ ExprIdle /\ StarIdle /\ NativeIdle /\ TcIdle /\ UIdle /\ CIdle /\ ClIdle /\ GIdle /\ MsIdle /\ FdIdle /\ EnIdle /\ TrIdle /\ MkIdle /\ MtIdle /\ EoIdle

SpecGc == InitGc /\ [][GcNext]_vars

\* the collector runs again and again, and a cycle that began ends
SpecGcFair ==
  /\ InitGc
  /\ [][GcNext]_vars
  /\ WF_vars(Collect_begin)
  /\ WF_vars(Collect_markRoots)
  /\ WF_vars(Collect_markLocked)
  /\ WF_vars(Collect_sweep)

InitTc == TcInit /\ GcIdle /\ PoolIdle /\ ExprIdle /\ StarIdle /\ NativeIdle /\ UIdle /\ CIdle /\ ClIdle /\ GIdle /\ MsIdle /\ FdIdle /\ EnIdle /\ TrIdle /\ MkIdle /\ MtIdle /\ EoIdle

SpecTc == InitTc /\ [][TcNext]_vars

InitU == UInit /\ GcIdle /\ TcIdle /\ PoolIdle /\ ExprIdle /\ StarIdle /\ NativeIdle /\ CIdle /\ ClIdle /\ GIdle /\ MsIdle /\ FdIdle /\ EnIdle /\ TrIdle /\ MkIdle /\ MtIdle /\ EoIdle

SpecU == InitU /\ [][UNext]_vars

InitC == CInit /\ GcIdle /\ TcIdle /\ UIdle /\ PoolIdle /\ ExprIdle /\ StarIdle /\ NativeIdle /\ ClIdle /\ GIdle /\ MsIdle /\ FdIdle /\ EnIdle /\ TrIdle /\ MkIdle /\ MtIdle /\ EoIdle

SpecC == InitC /\ [][CNext]_vars

InitCl == ClInit /\ GcIdle /\ TcIdle /\ UIdle /\ CIdle /\ PoolIdle /\ ExprIdle /\ StarIdle /\ NativeIdle /\ GIdle /\ MsIdle /\ FdIdle /\ EnIdle /\ TrIdle /\ MkIdle /\ MtIdle /\ EoIdle

SpecCl == InitCl /\ [][ClNext]_vars

InitG == GInit /\ GcIdle /\ TcIdle /\ UIdle /\ CIdle /\ ClIdle /\ PoolIdle /\ ExprIdle /\ StarIdle /\ NativeIdle /\ MsIdle /\ FdIdle /\ EnIdle /\ TrIdle /\ MkIdle /\ MtIdle /\ EoIdle

SpecG == InitG /\ [][GNext]_vars

InitMs == MsInit /\ GcIdle /\ TcIdle /\ UIdle /\ CIdle /\ ClIdle /\ GIdle /\ PoolIdle /\ ExprIdle /\ StarIdle /\ NativeIdle /\ FdIdle /\ EnIdle /\ TrIdle /\ MkIdle /\ MtIdle /\ EoIdle

SpecMs == InitMs /\ [][MsNext]_vars

InitFd == FdInit /\ GcIdle /\ TcIdle /\ UIdle /\ CIdle /\ ClIdle /\ GIdle /\ MsIdle /\ PoolIdle /\ ExprIdle /\ StarIdle /\ NativeIdle /\ EnIdle /\ TrIdle /\ MkIdle /\ MtIdle /\ EoIdle

SpecFd == InitFd /\ [][FdNext]_vars

InitEn == EnInit /\ GcIdle /\ TcIdle /\ UIdle /\ CIdle /\ ClIdle /\ GIdle /\ MsIdle /\ FdIdle /\ PoolIdle /\ ExprIdle /\ StarIdle /\ NativeIdle /\ TrIdle /\ MkIdle /\ MtIdle /\ EoIdle

SpecEn == InitEn /\ [][EnNext]_vars

InitTr == TrInit /\ GcIdle /\ TcIdle /\ UIdle /\ CIdle /\ ClIdle /\ GIdle /\ MsIdle /\ FdIdle /\ EnIdle /\ PoolIdle /\ ExprIdle /\ StarIdle /\ NativeIdle /\ MkIdle /\ MtIdle /\ EoIdle

SpecTr == InitTr /\ [][TrNext]_vars

InitMk == MkInit /\ GcIdle /\ TcIdle /\ UIdle /\ CIdle /\ ClIdle /\ GIdle /\ MsIdle /\ FdIdle /\ EnIdle /\ TrIdle /\ PoolIdle /\ ExprIdle /\ StarIdle /\ NativeIdle /\ MtIdle /\ EoIdle

SpecMk == InitMk /\ [][MkNext]_vars

InitMt == MtInit /\ GcIdle /\ TcIdle /\ UIdle /\ CIdle /\ ClIdle /\ GIdle /\ MsIdle /\ FdIdle /\ EnIdle /\ TrIdle /\ MkIdle /\ PoolIdle /\ ExprIdle /\ StarIdle /\ NativeIdle /\ EoIdle

SpecMt == InitMt /\ [][MtNext]_vars

InitEo == EoInit /\ GcIdle /\ TcIdle /\ UIdle /\ CIdle /\ ClIdle /\ GIdle /\ MsIdle /\ FdIdle /\ EnIdle /\ TrIdle /\ MkIdle /\ MtIdle /\ PoolIdle /\ ExprIdle /\ StarIdle /\ NativeIdle

SpecEo == InitEo /\ [][EoNext]_vars

====
